---- MODULE Spec2Model ----
(***************************************************************************)
(* Model of the AI-CATS diagnosis pipeline (src/main.py and the services   *)
(* it drives): the four-stage resumable workflow per respondent, the       *)
(* retry loops around the evaluator, and the sheet store that persists     *)
(* the stage artifacts and the respondent status.                          *)
(*                                                                         *)
(* Text is modelled as a sequence of one-character strings, so that        *)
(* strip() and lower() are computed and not assumed.  The kanji of the     *)
(* status labels are written by their code points:                         *)
(*   U5B8C U4E86 = "kanryo" (done), U5B8C U6210 = "kansei" (alt. done),    *)
(*   U8A3A U65AD = "shindan" (diagnosis).                                  *)
(* Scores are integers in tenths (45 is 4.5).                              *)
(***************************************************************************)
EXTENDS Integers, Sequences, FiniteSets, TLC

(***************************************************************************)
(* Bounds of the model.                                                    *)
(***************************************************************************)
NumRespondents == 2
QuestionColumns == 2
MaxRetries == 3
MaxRuns == 2

Respondents == 1..NumRespondents
Stages == 1..4

(***************************************************************************)
(* Text helpers: str.strip() and str.lower().                              *)
(***************************************************************************)
UpperLetters ==
  <<"A", "B", "C", "D", "E", "F", "G", "H", "I", "J", "K", "L", "M",
    "N", "O", "P", "Q", "R", "S", "T", "U", "V", "W", "X", "Y", "Z">>
LowerLetters ==
  <<"a", "b", "c", "d", "e", "f", "g", "h", "i", "j", "k", "l", "m",
    "n", "o", "p", "q", "r", "s", "t", "u", "v", "w", "x", "y", "z">>

LowerChar(c) ==
  IF \E i \in 1..26 : UpperLetters[i] = c
  THEN LowerLetters[CHOOSE i \in 1..26 : UpperLetters[i] = c]
  ELSE c

Lower(s) == [i \in 1..Len(s) |-> LowerChar(s[i])]

RECURSIVE LStrip(_)
LStrip(s) == IF s # <<>> /\ Head(s) = " " THEN LStrip(Tail(s)) ELSE s

RECURSIVE RStrip(_)
RStrip(s) ==
  IF s # <<>> /\ s[Len(s)] = " " THEN RStrip(SubSeq(s, 1, Len(s) - 1)) ELSE s

Strip(s) == RStrip(LStrip(s))

(***************************************************************************)
(* Status labels.  The four labels the orchestrator writes                 *)
(* (main.py:159,218,320,373) and the markers validate_respondents writes.  *)
(***************************************************************************)
KANRYO == <<"U5B8C", "U4E86">>
KANSEI == <<"U5B8C", "U6210">>
SHINDAN == <<"U8A3A", "U65AD">>

PM1RawDone == <<"P", "M", "1", "R", "a", "w">> \o KANRYO
PM5RawDone == <<"P", "M", "5", "R", "a", "w">> \o KANRYO
PM1FinalDone == <<"P", "M", "1", "F", "i", "n", "a", "l">> \o KANRYO
PM5FinalDone == <<"P", "M", "5", "F", "i", "n", "a", "l">> \o KANRYO

StageLabelOfNext(k) ==
  CASE k = 1 -> PM5RawDone
    [] k = 2 -> PM1FinalDone
    [] k = 3 -> PM5FinalDone
    [] k = 4 -> PM5FinalDone

StageLabel(k) ==
  CASE k = 1 -> PM1RawDone
    [] k = 2 -> PM5RawDone
    [] k = 3 -> PM1FinalDone
    [] k = 4 -> PM5FinalDone

InvalidMissingFields == <<"invalid", ":", "missing", "-", "fields">>
InvalidAnswerCount == <<"invalid", ":", "answer", "-", "count">>
InvalidMarkers == {InvalidMissingFields, InvalidAnswerCount}

completed_statuses ==
  { <<"p", "m", "5", "f", "i", "n", "a", "l">> \o KANRYO,
    <<"p", "m", "5", "f", "i", "n", "a", "l">> \o KANSEI,
    SHINDAN \o KANRYO,
    SHINDAN \o KANSEI }

IsCompletedNoLower(status) == Strip(status) \in completed_statuses

IsCompleted(status) == Lower(Strip(status)) \in completed_statuses

StartStepRepeatsStage2(status) ==
  LET current_status == Lower(Strip(status)) IN
  IF current_status \in {<<"p", "m", "1", "r", "a", "w">> \o KANRYO,
                         <<"p", "m", "1", "r", "a", "w">> \o KANSEI,
                         <<"p", "m", "5", "r", "a", "w">> \o KANRYO,
                         <<"p", "m", "5", "r", "a", "w">> \o KANSEI} THEN 2
  ELSE IF current_status \in {<<"p", "m", "1", "f", "i", "n", "a", "l">> \o KANRYO,
                              <<"p", "m", "1", "f", "i", "n", "a", "l">> \o KANSEI} THEN 4
  ELSE 1

StartStepNoLower(status) ==
  LET current_status == Strip(status) IN
  IF current_status \in {<<"p", "m", "1", "r", "a", "w">> \o KANRYO,
                         <<"p", "m", "1", "r", "a", "w">> \o KANSEI} THEN 2
  ELSE IF current_status \in {<<"p", "m", "5", "r", "a", "w">> \o KANRYO,
                              <<"p", "m", "5", "r", "a", "w">> \o KANSEI} THEN 3
  ELSE IF current_status \in {<<"p", "m", "1", "f", "i", "n", "a", "l">> \o KANRYO,
                              <<"p", "m", "1", "f", "i", "n", "a", "l">> \o KANSEI} THEN 4
  ELSE 1

StartStep(status) ==
  LET current_status == Lower(Strip(status)) IN
  IF current_status \in {<<"p", "m", "1", "r", "a", "w">> \o KANRYO,
                         <<"p", "m", "1", "r", "a", "w">> \o KANSEI} THEN 2
  ELSE IF current_status \in {<<"p", "m", "5", "r", "a", "w">> \o KANRYO,
                              <<"p", "m", "5", "r", "a", "w">> \o KANSEI} THEN 3
  ELSE IF current_status \in {<<"p", "m", "1", "f", "i", "n", "a", "l">> \o KANRYO,
                              <<"p", "m", "1", "f", "i", "n", "a", "l">> \o KANSEI} THEN 4
  ELSE 1

\* The number of stages a status says are done: 4 for a complete marker,
\* otherwise one less than the step the run would start at.
Rank(status) == IF IsCompleted(status) THEN 4 ELSE StartStep(status) - 1

(***************************************************************************)
(* Sheet cells.  A row is a sequence of cells; Col(row, k) is Python's     *)
(* row[k].  get_all_values() returns every cell as its display string:     *)
(* a "num" cell shows a number, a "str" cell a text that is no number,     *)
(* a "json" cell the json.dumps text of a value.  Texts are sequences of    *)
(* tokens, the empty text is <<>>.                                         *)
(***************************************************************************)
NumCell(n) == [t |-> "num", v |-> n]
StrCell(x) == [t |-> "str", v |-> x]
JsonCell(x) == [t |-> "json", v |-> x]
EmptyCell == [t |-> "empty", v |-> <<>>]

Raised == [t |-> "raised", v |-> 0]

Col(row, k) == row[k + 1]
HasCol(row, k) == Len(row) > k
Truthy(cell) == cell.t # "empty"

\* float(text): a number for a numeric display string, ValueError otherwise.
Float(cell) == IF cell.t = "num" THEN cell ELSE Raised

\* json.loads(text): the dumped value, a bare number for a numeric string,
\* JSONDecodeError for any other text.
JsonLoads(cell) == IF cell.t \in {"json", "num"} THEN cell ELSE Raised

\* "float(row[k]) if len(row) > k and row[k] else 0"
FloatOrZero(row, k) ==
  IF HasCol(row, k) /\ Truthy(Col(row, k)) THEN Float(Col(row, k)) ELSE NumCell(0)

\* "json.loads(row[k]) if len(row) > k and row[k] else <default>"
JsonOrDefault(row, k, default) ==
  IF HasCol(row, k) /\ Truthy(Col(row, k)) THEN JsonLoads(Col(row, k))
  ELSE JsonCell(default)

\* "row[k] if len(row) > k else ''"
TextOrEmpty(row, k) == IF HasCol(row, k) THEN Col(row, k).v ELSE <<>>

TextCell(x) == IF x = <<>> THEN EmptyCell ELSE StrCell(x)

RespondentId(r) == <<"id", r>>
Timestamp == StrCell(<<"2025-01-01 00:00:00">>)

\* Python's None for an optional value: the empty sequence; Some(x) is <<x>>.
None == <<>>
Some(x) == <<x>>
IsNone(o) == Len(o) = 0
Get(o) == o[1]

\* Python's None where a label is expected.
NoneLabel == <<"None">>

(***************************************************************************)
(* Category mapper (core/category_mapper.py).  Japanese labels are one     *)
(* token per word; process labels are spelled out in characters.           *)
(***************************************************************************)
OFFICIAL_PRIMARY_CATEGORIES ==
  << <<"mondai-rikai">>, <<"ronri-shikou">>, <<"kasetsu-kouchiku">>,
     <<"AI-shiji">>, <<"AI-kenshou/yuusen-juni-handan">> >>

OFFICIAL_SUB_CATEGORIES == << <<"jouhou-seiri">>, <<"inga-suiron">> >>

P_clarity == <<"c", "l", "a", "r", "i", "t", "y">>
P_structure == <<"s", "t", "r", "u", "c", "t", "u", "r", "e">>
P_hypothesis == <<"h", "y", "p", "o", "t", "h", "e", "s", "i", "s">>
P_prompt_clarity == <<"p", "r", "o", "m", "p", "t", " ">> \o P_clarity
P_prompt_underscore == <<"p", "r", "o", "m", "p", "t", "_">> \o P_clarity
P_consistency == <<"c", "o", "n", "s", "i", "s", "t", "e", "n", "c", "y">>
P_quality_check ==
  <<"q", "u", "a", "l", "i", "t", "y", "_", "c", "h", "e", "c", "k">>

OFFICIAL_PROCESS_ITEMS ==
  <<P_clarity, P_structure, P_hypothesis, P_prompt_clarity, P_consistency>>

Range(f) == {f[i] : i \in DOMAIN f}

PrimaryMapping(c) ==
  CASE c = <<"mondai-rikai">> -> <<"mondai-rikai">>
    [] c = <<"ronri-shikou">> -> <<"ronri-shikou">>
    [] c = <<"ronri-kousei">> -> <<"ronri-shikou">>
    [] c = <<"kasetsu-kouchiku">> -> <<"kasetsu-kouchiku">>
    [] c = <<"AI-shiji">> -> <<"AI-shiji">>
    [] c = <<"AI-seika-kenshou-ryoku">> -> <<"AI-kenshou/yuusen-juni-handan">>
    [] c = <<"yuusen-juni-handan">> -> <<"AI-kenshou/yuusen-juni-handan">>
    [] OTHER -> IF c \in Range(OFFICIAL_PRIMARY_CATEGORIES) THEN c ELSE NoneLabel

\* A variant whose dictionary leaves an old label of the sheet as it is.
SubMappingKeepsOldLabel(c) ==
  IF c \in {<<"jouhou-seiri">>, <<"inga-suiron">>, <<"zentei-settei">>,
            <<"youken-teigi-ryoku">>, <<"hinshitsu-check-ryoku">>, <<"ishi-kettei">>}
  THEN c ELSE NoneLabel

SubMapping(c) ==
  CASE c = <<"jouhou-seiri">> -> <<"jouhou-seiri">>
    [] c = <<"inga-suiron">> -> <<"inga-suiron">>
    [] c = <<"zentei-settei">> -> <<"inga-suiron">>
    [] c = <<"youken-teigi-ryoku">> -> <<"jouhou-seiri">>
    [] c = <<"hinshitsu-check-ryoku">> -> <<"inga-suiron">>
    [] c = <<"ishi-kettei">> -> <<"inga-suiron">>
    [] OTHER -> IF c \in Range(OFFICIAL_SUB_CATEGORIES) THEN c ELSE NoneLabel

ProcessMapping(c) ==
  CASE c = P_clarity -> P_clarity
    [] c = P_structure -> P_structure
    [] c = P_hypothesis -> P_hypothesis
    [] c = P_prompt_clarity -> P_prompt_clarity
    [] c = P_prompt_underscore -> P_prompt_clarity
    [] c = P_consistency -> P_consistency
    [] c = P_quality_check -> P_consistency
    [] OTHER -> IF c \in {Lower(o) : o \in Range(OFFICIAL_PROCESS_ITEMS)}
                THEN c ELSE NoneLabel

\* The official casing of a normalized process label.
OfficialCasing(normalized) ==
  IF normalized # NoneLabel
     /\ \E o \in Range(OFFICIAL_PROCESS_ITEMS) : Lower(o) = normalized
  THEN CHOOSE o \in Range(OFFICIAL_PROCESS_ITEMS) : Lower(o) = normalized
  ELSE normalized

\* The mapping of a stripped, non-empty label.  (The set constructors make
\* the checker evaluate the stripped and the normalized label once.)
MapStripped(c, category_type) ==
  CASE category_type = "primary" -> PrimaryMapping(c)
    [] category_type = "sub" -> SubMapping(c)
    [] category_type = "process" ->
         CHOOSE r \in {OfficialCasing(ProcessMapping(low)) : low \in {Lower(c)}} : TRUE
    [] OTHER -> NoneLabel

map_to_official_category(category, category_type) ==
  IF category = <<>> THEN NoneLabel
  ELSE CHOOSE r \in {MapStripped(c, category_type) : c \in {Strip(category)}} : TRUE

(***************************************************************************)
(* The question sheet (SheetsService.get_question_rows).  A header is the  *)
(* number n of a valid "Qn" header, or 0 for a header that is no question  *)
(* id; the category labels of a column are as the sheet authors them       *)
(* (aliases, padding and capitals included).                               *)
(***************************************************************************)
DIAGNOSIS_QUESTION_COUNT == 6

CategoryRow(col) ==
  CASE col % 3 = 1 -> [primary_category |-> <<"mondai-rikai">>,
                       sub_category |-> <<"jouhou-seiri">>,
                       process_category |-> P_clarity]
    [] col % 3 = 2 -> [primary_category |-> <<"ronri-kousei">>,
                       sub_category |-> <<" ", "zentei-settei">>,
                       process_category |-> <<"P", "r", "o", "m", "p", "t", "_">> \o P_clarity]
    [] OTHER -> [primary_category |-> <<"AI-seika-kenshou-ryoku">>,
                 sub_category |-> <<"hinshitsu-check-ryoku">>,
                 process_category |-> P_quality_check]

RECURSIVE InsertByNumber(_, _)
InsertByNumber(sorted, q) ==
  IF sorted = <<>> THEN <<q>>
  ELSE IF q.number < Head(sorted).number THEN <<q>> \o sorted
  ELSE <<Head(sorted)>> \o InsertByNumber(Tail(sorted), q)

RECURSIVE SortByNumber(_)
SortByNumber(qs) ==
  IF qs = <<>> THEN <<>>
  ELSE InsertByNumber(SortByNumber(SubSeq(qs, 1, Len(qs) - 1)), qs[Len(qs)])

RECURSIVE ScanHeader(_, _)
ScanHeader(header_row, col) ==
  IF col > Len(header_row) \/ col > 6 THEN <<>>
  ELSE LET no == header_row[col] IN
       IF no < 1 \/ no > DIAGNOSIS_QUESTION_COUNT
       THEN ScanHeader(header_row, col + 1)
       ELSE << [number |-> no,
                primary_category |-> CategoryRow(col).primary_category,
                sub_category |-> CategoryRow(col).sub_category,
                process_category |-> CategoryRow(col).process_category] >>
            \o ScanHeader(header_row, col + 1)

\* A variant that returns the questions in column order.
get_question_rows_in_column_order(header_row) == ScanHeader(header_row, 1)

get_question_rows(header_row) == SortByNumber(ScanHeader(header_row, 1))

(***************************************************************************)
(* Evaluator replies.  One attempt ends in a transport error (_invoke_llm  *)
(* returns None), a reply the parser rejects (None), a reply on which the  *)
(* parser raises, or a validated record.  The validated records of the     *)
(* four kinds, by question number q and reply variant v:                   *)
(***************************************************************************)
Pm01RawRecord(q, v) ==
  [primary_score |-> 10 + 5 * ((q + v) % 4),
   sub_score |-> 30 + 5 * ((q + v) % 4),
   process_score |-> 20 + 5 * ((q + 2 * v) % 4),
   aes_clarity |-> 50 - 5 * v,
   aes_logic |-> 15 + 5 * (q % 3),
   aes_relevance |-> 35 + 5 * (v % 2),
   evidence |-> <<"evidence", q, v>>,
   judgment_reason |-> <<"reason", q, v>>,
   question_number |-> q]

Pm05RawRecord(q, v) ==
  [primary_score |-> 15 + 5 * ((q + v) % 4),
   sub_score |-> 25 + 5 * ((q + 2 * v) % 4),
   process_score |-> 35 + 5 * ((q + v) % 4),
   difference_note |-> <<"note", q, v>>,
   question_number |-> q]

Pm01FinalAnalysis(v) ==
  [overall_summary |-> <<"summary", v>>,
   ai_use_level |-> IF v = 1 THEN <<"standard">> ELSE <<"advanced">>,
   recommendations |-> IF v = 1 THEN <<"rec-a">> ELSE <<"rec-a", "rec-b">>]

Pm05FinalRecord(v) ==
  [status |-> IF v = 1 THEN <<"datou">> ELSE <<"chuui">>,
   consistency_score |-> IF v = 1 THEN 92 ELSE 70,
   detected_issues |-> IF v = 1 THEN <<>> ELSE <<"issue">>,
   comment |-> <<"comment", v>>]

(***************************************************************************)
(* Score aggregation (ScoringEngine.aggregate_pm05_raw_scores and          *)
(* combine_pm01_final).  A result set is a function from question numbers  *)
(* (the keys "Qn") to records.                                             *)
(***************************************************************************)
Min(a, b) == IF a < b THEN a ELSE b
Max(a, b) == IF a > b THEN a ELSE b

RECURSIVE SeqSum(_)
SeqSum(xs) == IF xs = <<>> THEN 0 ELSE Head(xs) + SeqSum(Tail(xs))

\* round(n / d) to the nearest integer, a tie going to the even neighbour
\* (Python's round on a value the float holds exactly).
RoundHalfEven(n, d) ==
  LET q == n \div d
      r == n % d
  IN IF 2 * r < d THEN q
     ELSE IF 2 * r > d THEN q + 1
     ELSE IF q % 2 = 0 THEN q ELSE q + 1

\* results.get("Qn", {}).get(key, 0)
ScoreOf(results, q, key) == IF q \in DOMAIN results THEN results[q][key] ELSE 0

\* A variant that clamps at the top only.
ClampAtTopOnly(x) == Min(50, x)

Clamp(x) == Max(10, Min(50, x))

\* A variant that asks for the primary label only.
MapsOnPrimaryLabel(question) ==
  map_to_official_category(question.primary_category, "primary") # NoneLabel

Maps(question) ==
  /\ map_to_official_category(question.primary_category, "primary") # NoneLabel
  /\ map_to_official_category(question.sub_category, "sub") # NoneLabel
  /\ map_to_official_category(question.process_category, "process") # NoneLabel

MappedQuestions(questions) == SelectSeq(questions, Maps)

\* The bucket of one official category: the clamped pass-B scores of the
\* mapped questions whose label maps to it, in question order.
RECURSIVE Bucket(_, _, _, _, _)
Bucket(qs, pm05, label_key, kind, category) ==
  IF qs = <<>> THEN <<>>
  ELSE LET q == Head(qs)
           rest == Bucket(Tail(qs), pm05, label_key, kind, category)
       IN IF map_to_official_category(q[label_key], kind) = category
          THEN <<Clamp(ScoreOf(pm05, q.number, kind \o "_score"))>> \o rest
          ELSE rest

\* A variant that reports the lowest score for an empty bucket.
MeanOrLowestScore(bucket) ==
  IF bucket = <<>> THEN 10 ELSE RoundHalfEven(SeqSum(bucket), Len(bucket))

MeanRounded(bucket) ==
  IF bucket = <<>> THEN 0 ELSE RoundHalfEven(SeqSum(bucket), Len(bucket))

CategoryMeans(official, qs, pm05, label_key, kind) ==
  [c \in Range(official) |-> MeanRounded(Bucket(qs, pm05, label_key, kind, c))]

RECURSIVE SumOver(_, _)
SumOver(official, means) ==
  IF official = <<>> THEN 0 ELSE means[Head(official)] + SumOver(Tail(official), means)

GroupMean(official, means) == RoundHalfEven(SumOver(official, means), Len(official))

\* The positive pass-A values of one quality component over the mapped questions.
RECURSIVE AesList(_, _, _)
AesList(qs, pm01, key) ==
  IF qs = <<>> THEN <<>>
  ELSE LET x == ScoreOf(pm01, Head(qs).number, key)
           rest == AesList(Tail(qs), pm01, key)
       IN IF x > 0 THEN <<x>> \o rest ELSE rest

\* A variant with the weights 0.60, 0.20 and 0.10.
WeightedShort(avg_primary, avg_sub, avg_process) ==
  RoundHalfEven(6 * avg_primary + 2 * avg_sub + avg_process, 10)

WeightedTotal(avg_primary, avg_sub, avg_process) ==
  RoundHalfEven(6 * avg_primary + 2 * avg_sub + 2 * avg_process, 10)

\* The rollup of the category means: the group means and their weighted total.
Rollup(qs, pm01_raw_results, primary_avg, sub_avg, process_avg) ==
  [scores_primary |-> primary_avg,
   scores_sub |-> sub_avg,
   process |-> process_avg,
   aes |-> [k \in {"aes_clarity", "aes_logic", "aes_relevance"} |->
              MeanRounded(AesList(qs, pm01_raw_results, k))],
   total_score |-> WeightedTotal(GroupMean(OFFICIAL_PRIMARY_CATEGORIES, primary_avg),
                                 GroupMean(OFFICIAL_SUB_CATEGORIES, sub_avg),
                                 GroupMean(OFFICIAL_PROCESS_ITEMS, process_avg)),
   per_question |-> {q.number : q \in Range(qs)}]

\* A variant that takes the category scores from the pass-A records.
AggregatePassAScores(qs, pm05_raw_results, pm01_raw_results) ==
  Rollup(qs, pm01_raw_results,
         CategoryMeans(OFFICIAL_PRIMARY_CATEGORIES, qs, pm01_raw_results,
                       "primary_category", "primary"),
         CategoryMeans(OFFICIAL_SUB_CATEGORIES, qs, pm01_raw_results,
                       "sub_category", "sub"),
         CategoryMeans(OFFICIAL_PROCESS_ITEMS, qs, pm01_raw_results,
                       "process_category", "process"))

\* The aggregation over the mapped questions.  (The set constructors make
\* the checker evaluate each table of means once.)
AggregateMapped(qs, pm05_raw_results, pm01_raw_results) ==
  CHOOSE r \in
    {Rollup(qs, pm01_raw_results, primary_avg, sub_avg, process_avg) :
       primary_avg \in {CategoryMeans(OFFICIAL_PRIMARY_CATEGORIES, qs,
                         pm05_raw_results, "primary_category", "primary")},
       sub_avg \in {CategoryMeans(OFFICIAL_SUB_CATEGORIES, qs,
                     pm05_raw_results, "sub_category", "sub")},
       process_avg \in {CategoryMeans(OFFICIAL_PROCESS_ITEMS, qs,
                         pm05_raw_results, "process_category", "process")}} : TRUE

aggregate_pm05_raw_scores(pm05_raw_results, pm01_raw_results, questions) ==
  CHOOSE r \in {AggregateMapped(qs, pm05_raw_results, pm01_raw_results) :
                  qs \in {MappedQuestions(questions)}} : TRUE

combine_pm01_final(aggregated_scores, pm01_final_analysis) ==
  [scores_primary |-> aggregated_scores.scores_primary,
   scores_sub |-> aggregated_scores.scores_sub,
   process |-> aggregated_scores.process,
   aes |-> aggregated_scores.aes,
   total_score |-> aggregated_scores.total_score,
   per_question |-> aggregated_scores.per_question,
   overall_summary |-> pm01_final_analysis.overall_summary,
   ai_use_level |-> pm01_final_analysis.ai_use_level,
   recommendations |-> pm01_final_analysis.recommendations]

(***************************************************************************)
(* Artifact rows: what the four writers of SheetsService append, and what  *)
(* the orchestrator reads back on resumption (main.py:165-193, 223-246,    *)
(* 325-354).  A sheet is the sequence of its data rows (the header row is  *)
(* kept by the writers and skipped by the readers).                        *)
(***************************************************************************)
QuestionIdCell(q) == StrCell(<<"Q", q>>)
QuestionNumberOf(cell) == cell.v[2]

RECURSIVE SortedKeys(_)
SortedKeys(keys) ==
  IF keys = {} THEN <<>>
  ELSE LET k == CHOOSE x \in keys : \A y \in keys : x <= y
       IN <<k>> \o SortedKeys(keys \ {k})

Pm1RawRow(r, q, d) ==
  << StrCell(RespondentId(r)), Timestamp, QuestionIdCell(q),
     NumCell(d.primary_score), NumCell(d.sub_score), NumCell(d.process_score),
     NumCell(d.aes_clarity), NumCell(d.aes_logic), NumCell(d.aes_relevance),
     TextCell(d.evidence), TextCell(d.judgment_reason) >>

Pm1RawRows(r, pm01_raw_results) ==
  LET keys == SortedKeys(DOMAIN pm01_raw_results)
  IN [i \in 1..Len(keys) |-> Pm1RawRow(r, keys[i], pm01_raw_results[keys[i]])]

Pm5RawRow(r, q, d) ==
  << StrCell(RespondentId(r)), Timestamp, QuestionIdCell(q),
     NumCell(d.primary_score), NumCell(d.sub_score), NumCell(d.process_score),
     TextCell(d.difference_note) >>

Pm5RawRowsFirstOnly(r, pm05_raw_results) ==
  LET keys == SortedKeys(DOMAIN pm05_raw_results)
  IN [i \in 1..1 |-> Pm5RawRow(r, keys[i], pm05_raw_results[keys[i]])]

Pm5RawRows(r, pm05_raw_results) ==
  LET keys == SortedKeys(DOMAIN pm05_raw_results)
  IN [i \in 1..Len(keys) |-> Pm5RawRow(r, keys[i], pm05_raw_results[keys[i]])]

CompanyName(r) == <<"company", r>>

Pm1FinalRow(r, pm01_final) ==
  << StrCell(RespondentId(r)), TextCell(CompanyName(r)), Timestamp,
     NumCell(pm01_final.total_score),
     JsonCell(pm01_final.scores_primary), JsonCell(pm01_final.scores_sub),
     JsonCell(pm01_final.process), JsonCell(pm01_final.aes),
     TextCell(pm01_final.overall_summary), TextCell(pm01_final.ai_use_level),
     JsonCell(pm01_final.recommendations) >>

Pm5FinalRow(r, pm05_final) ==
  << StrCell(RespondentId(r)), Timestamp, TextCell(pm05_final.status),
     NumCell(pm05_final.consistency_score), JsonCell(pm05_final.detected_issues),
     TextCell(pm05_final.comment) >>

IsRowOfAnyRespondent(row, r, min_len) == Len(row) > min_len

IsRowOf(row, r, min_len) == Len(row) > min_len /\ Col(row, 0).v = RespondentId(r)

AnyRaised(cells) == \E i \in DOMAIN cells : cells[i].t = "raised"

\* main.py:171-184.  The rows of the respondent are read in sheet order, a
\* later row of a question replacing an earlier one; a float() that raises
\* ends the reading with what was read so far.
RECURSIVE LoadPm1RawFrom(_, _, _)
LoadPm1RawFrom(rows, r, acc) ==
  IF rows = <<>> THEN acc
  ELSE LET row == Head(rows) IN
       IF ~IsRowOf(row, r, 2) THEN LoadPm1RawFrom(Tail(rows), r, acc)
       ELSE LET nums == [k \in 3..8 |-> FloatOrZero(row, k)] IN
            IF AnyRaised(nums) THEN acc
            ELSE LoadPm1RawFrom(Tail(rows), r,
                   (QuestionNumberOf(Col(row, 2)) :>
                      [primary_score |-> nums[3].v,
                       sub_score |-> nums[4].v,
                       process_score |-> nums[5].v,
                       aes_clarity |-> nums[6].v,
                       aes_logic |-> nums[7].v,
                       aes_relevance |-> nums[8].v,
                       evidence |-> TextOrEmpty(row, 9),
                       judgment_reason |-> TextOrEmpty(row, 10)]) @@ acc)

\* A variant that keeps the record of one question only.
LoadPm1RawOneQuestion(sheet, r) ==
  LET loaded == LoadPm1RawFrom(sheet, r, <<>>) IN
  IF DOMAIN loaded = {} THEN loaded
  ELSE LET q == CHOOSE q \in DOMAIN loaded : TRUE IN (q :> loaded[q])

LoadPm1Raw(sheet, r) == LoadPm1RawFrom(sheet, r, <<>>)

\* main.py:228-237.
RECURSIVE LoadPm5RawFrom(_, _, _)
LoadPm5RawFrom(rows, r, acc) ==
  IF rows = <<>> THEN acc
  ELSE LET row == Head(rows) IN
       IF ~IsRowOf(row, r, 2) THEN LoadPm5RawFrom(Tail(rows), r, acc)
       ELSE LET nums == [k \in 3..5 |-> FloatOrZero(row, k)] IN
            IF AnyRaised(nums) THEN acc
            ELSE LoadPm5RawFrom(Tail(rows), r,
                   (QuestionNumberOf(Col(row, 2)) :>
                      [primary_score |-> nums[3].v,
                       sub_score |-> nums[4].v,
                       process_score |-> nums[5].v,
                       difference_note |-> TextOrEmpty(row, 6)]) @@ acc)

LoadPm5Raw(sheet, r) == LoadPm5RawFrom(sheet, r, <<>>)

\* The first row of the respondent, read with the column offsets given:
\* total score at column first, the four score maps at first+1..first+4.
\* Any float() or json.loads() that raises leaves the result None.
ReadPm1FinalRow(row, total, maps, strengths, summary, recs) ==
  LET cells == << FloatOrZero(row, total),
                  JsonOrDefault(row, maps, <<>>),
                  JsonOrDefault(row, maps + 1, <<>>),
                  JsonOrDefault(row, maps + 2, <<>>),
                  JsonOrDefault(row, maps + 3, <<>>),
                  IF strengths THEN JsonOrDefault(row, maps + 4, <<>>) ELSE JsonCell(<<>>),
                  IF strengths THEN JsonOrDefault(row, maps + 5, <<>>) ELSE JsonCell(<<>>),
                  JsonOrDefault(row, recs, <<>>) >>
  IN IF AnyRaised(cells) THEN None
     ELSE Some([total_score |-> cells[1].v,
                scores_primary |-> cells[2].v,
                scores_sub |-> cells[3].v,
                process |-> cells[4].v,
                aes |-> cells[5].v,
                overall_summary |-> TextOrEmpty(row, summary),
                ai_use_level |-> TextOrEmpty(row, summary + 1),
                recommendations |-> cells[8].v,
                per_question |-> {}])

RECURSIVE FirstRowOf(_, _)
FirstRowOf(rows, r) ==
  IF rows = <<>> THEN None
  ELSE IF IsRowOf(Head(rows), r, 0) THEN Some(Head(rows))
  ELSE FirstRowOf(Tail(rows), r)

\* The reader of app.py:273-290, whose columns are those the writer fills.
LoadPm1FinalAligned(sheet, r) ==
  LET row == FirstRowOf(sheet, r)
  IN IF IsNone(row) THEN None ELSE ReadPm1FinalRow(Get(row), 3, 4, FALSE, 8, 10)

\* main.py:330-347: total score from row[2], maps from row[3..6], strengths
\* and weaknesses from row[7..8], summary row[9], level row[10], recs row[11].
LoadPm1Final(sheet, r) ==
  LET row == FirstRowOf(sheet, r)
  IN IF IsNone(row) THEN None ELSE ReadPm1FinalRow(Get(row), 2, 3, TRUE, 9, 11)

\* ScoringEngine.process_pm05_final on a record the parser validated: the
\* status is already one of the three labels and the value is in range.
process_pm05_final(pm05_llm_response) ==
  [status |-> pm05_llm_response.status,
   consistency_score |-> pm05_llm_response.consistency_score,
   detected_issues |-> pm05_llm_response.detected_issues,
   comment |-> pm05_llm_response.comment]

(***************************************************************************)
(* Respondent rows and their validation (ValidationService).               *)
(***************************************************************************)
MAX_ANSWERS == 6

RespondentProfile(r, profile) ==
  [name |-> IF profile = "no_name" THEN <<>> ELSE <<"name", r>>,
   answers |-> [i \in 1..MAX_ANSWERS |->
                  IF profile = "missing_answer" /\ i = 3 THEN <<>>
                  ELSE <<"answer", r, i>>],
   reasons |-> [i \in 1..MAX_ANSWERS |-> <<"why", r, i>>]]

NonEmptyCount(answers) == Cardinality({i \in DOMAIN answers : answers[i] # <<>>})

\* The marker validate_respondents writes for a row, None for a valid row.
ValidationMarker(row) ==
  IF row.name = <<>> THEN Some(InvalidMissingFields)
  ELSE IF NonEmptyCount(row.answers) # MAX_ANSWERS THEN Some(InvalidAnswerCount)
  ELSE None

(***************************************************************************)
(* State.                                                                  *)
(***************************************************************************)
VARIABLES
  respondent_data,     \* the respondents sheet, columns 0..18 (input)
  config,              \* the config sheet: which prompt templates it holds
  question_sheet,      \* the questions sheet: the numbers its header cells give
  status_col,          \* the respondents sheet, column 19
  pm1raw_sheet, pm5raw_sheet, pm1final_sheet, pm5final_sheet,
  error_log,           \* the error-log rows appended for the respondent at hand
  validation_log, run_log,
  pc,                  \* where main() stands
  run_no,              \* batch runs started so far
  unprocessed, idx,    \* the respondents of this run and the loop position
  questions,
  start_from_step,
  pm01_raw_results, pm05_raw_results, aggregated_scores, pm01_final, pm05_final,
  question_index, attempt, all_question_results,
  total_processed, total_errors,
  reports,             \* the outcome of the report of the respondent at hand
  parser_call,         \* a reply text handed to the parser, and for which stage
  parsed,              \* what the parser returned for it
  reparsed,            \* what the parser returned for the dumped result
  mapper_call,         \* a label handed to the category mapper, and its group
  mapped_to,           \* what the mapper returned for it
  remapped_to,         \* what the mapper returned for its own result
  aggregator_call,     \* a question list and result sets handed to the aggregator
  score_set,           \* what the aggregator returned for them
  score_set_twin,      \* the same with another pass-A result set
  score_set_rest,      \* the same without the questions that do not map
  validator_call,      \* two stage-4 records handed to the consistency validator
  consistency_report,  \* the report made of the first
  consistency_report_twin, \* the report made of the second
  batch_runs,          \* two batch runs on one store: where each stands
  executed_by,         \* which of them has executed which stage of whom
  hist                 \* history of the run, read by the properties only

storeVars == <<status_col, pm1raw_sheet, pm5raw_sheet, pm1final_sheet,
               pm5final_sheet, error_log, validation_log, run_log>>
sheetVars == <<pm1raw_sheet, pm5raw_sheet, pm1final_sheet, pm5final_sheet>>
resultVars == <<pm01_raw_results, pm05_raw_results, aggregated_scores,
                pm01_final, pm05_final>>
loopVars == <<unprocessed, idx, questions, start_from_step>>
runnerVars == <<question_index, attempt, all_question_results>>
countVars == <<total_processed, total_errors>>

parserVars == <<parser_call, parsed, reparsed>>
mapperVars == <<mapper_call, mapped_to, remapped_to>>
aggregatorVars == <<aggregator_call, score_set, score_set_twin, score_set_rest>>
validatorVars == <<validator_call, consistency_report, consistency_report_twin>>
overlapVars == <<batch_runs, executed_by>>

\* What no step of main() changes.
inputVars == <<respondent_data, config, question_sheet, parserVars, mapperVars,
              aggregatorVars, validatorVars, overlapVars>>

pipelineVars == <<respondent_data, config, question_sheet, validatorVars, overlapVars,
                  storeVars,
                  pc, run_no, loopVars,
                  resultVars, runnerVars, countVars, reports, hist>>

vars == <<inputVars, storeVars, pc, run_no, loopVars,
          resultVars, runnerVars, countVars, reports, hist>>

QuestionHeaderRow == [c \in 1..QuestionColumns |-> c]

InitStatuses ==
  { <<>>,
    PM1RawDone,
    <<" ", "P", "m", "5", "R", "a", "w">> \o KANSEI \o <<" ">>,
    PM1FinalDone,
    SHINDAN \o KANRYO,
    <<"m", "i", "s", "h", "o", "r", "i">> }

\* The evaluator's records carry the respondent and the run they were made
\* for; the store of the initial state holds those of an earlier run.
ReplyVariant(r, run) == ((r + run) % 2) + 1

DefaultPm01Raw(r) ==
  LET qs == get_question_rows(QuestionHeaderRow)
  IN [q \in {qs[i].number : i \in DOMAIN qs} |-> Pm01RawRecord(q, ReplyVariant(r, 0))]

DefaultPm05Raw(r) ==
  LET qs == get_question_rows(QuestionHeaderRow)
  IN [q \in {qs[i].number : i \in DOMAIN qs} |-> Pm05RawRecord(q, ReplyVariant(r, 0))]

DefaultPm01Final(r) ==
  combine_pm01_final(
    aggregate_pm05_raw_scores(DefaultPm05Raw(r), DefaultPm01Raw(r),
                              get_question_rows(QuestionHeaderRow)),
    Pm01FinalAnalysis(ReplyVariant(r, 0)))

DefaultPm05Final(r) == process_pm05_final(Pm05FinalRecord(ReplyVariant(r, 0)))

\* The rows of one sheet in a store whose respondents stand at the given
\* statuses: the writer's rows for every respondent that has passed the stage.
RECURSIVE InitSheet(_, _, _)
InitSheet(r, statuses, stage) ==
  IF r > NumRespondents THEN <<>>
  ELSE (IF Rank(statuses[r]) < stage THEN <<>>
        ELSE CASE stage = 1 -> Pm1RawRows(r, DefaultPm01Raw(r))
               [] stage = 2 -> Pm5RawRows(r, DefaultPm05Raw(r))
               [] stage = 3 -> <<Pm1FinalRow(r, DefaultPm01Final(r))>>
               [] stage = 4 -> <<Pm5FinalRow(r, DefaultPm05Final(r))>>)
       \o InitSheet(r + 1, statuses, stage)

\* The prompt templates of the config sheet (config.py:65-91).
PromptKeys == {"promptPM1Raw", "promptPM5Raw", "promptPM1Final", "promptPM5Final"}

AllPrompts == [k \in PromptKeys |-> TRUE]

NoInvocation ==
  [ended |-> FALSE, result |-> "none", attempts |-> 0, logged |-> 0,
   tries |-> 0, record |-> <<>>, stage |-> 0, question |-> 0, log_mark |-> 0]
NoSnapshot == [status |-> <<>>, rows |-> <<0, 0, 0, 0>>]
At(label, step) == [at |-> label, step |-> step]
NotRead == <<"not-read">>

\* What a parser call has returned: nothing yet, None, or an exception.
\* A returned record d is [t |-> "dict", v |-> d].
NotParsed == [t |-> "pending", v |-> 0]
Rejected == [t |-> "none", v |-> 0]
NoCall ==
  [stage |-> "none", raw |-> <<>>, question_number |-> 0,
   wrapper |-> "none", payload |-> <<>>]

ParserIdle ==
  /\ parser_call = NoCall
  /\ parsed = NotParsed
  /\ reparsed = NotParsed

\* What a mapper call has returned: nothing yet, or a label (NoneLabel for
\* None).
NotMapped == <<"pending">>

MapperIdle ==
  /\ mapper_call = [category |-> <<>>, category_type |-> "none"]
  /\ mapped_to = NotMapped
  /\ remapped_to = NotMapped

\* What an aggregator call has returned: nothing yet, or a score set d as
\* [t |-> "set", v |-> d].
NotAggregated == [t |-> "pending", v |-> 0]

AggregatorIdle ==
  /\ aggregator_call = [questions |-> <<>>, pm05_raw_results |-> <<>>,
                        pm01_raw_results |-> <<>>, pm01_twin |-> <<>>]
  /\ score_set = NotAggregated
  /\ score_set_twin = NotAggregated
  /\ score_set_rest = NotAggregated

\* What the validator has returned: nothing yet, or a report d as
\* [t |-> "report", v |-> d].
NotReported == [t |-> "pending", v |-> 0]

ValidatorIdle ==
  /\ validator_call = [pm05_llm_response |-> <<>>, pm05_twin |-> <<>>]
  /\ consistency_report = NotReported
  /\ consistency_report_twin = NotReported

\* A batch run that has not started.
NotStarted == [at |-> "idle", rows |-> <<>>, idx |-> 0, step |-> 0]

BatchRuns == {1, 2}

OverlapIdle ==
  /\ batch_runs = [k \in BatchRuns |-> NotStarted]
  /\ executed_by = [r \in Respondents |-> [stage \in 1..4 |-> {}]]

\* The status that goes with the rows the store holds for a respondent: the
\* status of the respondent, or the label of the stage after it when an
\* earlier run has written that stage's rows and not updated the status
\* (main.py:154-159, 213-218).
WrittenUpTo(status, ahead) ==
  IF ahead THEN StageLabel(Rank(status) + 1) ELSE status

\* The state after construction, on a store that earlier runs have left.
PipelineInitWritten(prompts, Profiles, Statuses, Aheads) ==
  /\ \E profiles \in [Respondents -> Profiles] :
     \E statuses \in [Respondents -> Statuses] :
     \E ahead \in [Respondents -> Aheads] :
     \E written \in {[r \in Respondents |-> WrittenUpTo(statuses[r], ahead[r])]} :
       /\ \A r \in Respondents : profiles[r] # "complete" => statuses[r] = <<>>
       /\ \A r \in Respondents :
             ahead[r] => profiles[r] = "complete" /\ Rank(statuses[r]) < 2
       /\ respondent_data = [r \in Respondents |-> RespondentProfile(r, profiles[r])]
       /\ status_col = statuses
       /\ pm1raw_sheet = InitSheet(1, written, 1)
       /\ pm5raw_sheet = InitSheet(1, written, 2)
       /\ pm1final_sheet = InitSheet(1, written, 3)
       /\ pm5final_sheet = InitSheet(1, written, 4)
       /\ hist = [evaluator_calls |-> 0,
                  tries |-> 0,
                  logged |-> 0,
                  log_mark |-> 0,
                  requests |-> {},
                  last_kind |-> "",
                  abort_question |-> [r \in Respondents |-> 0],
                  counted_before |-> <<0, 0>>,
                  run_log_mark |-> 0,
                  calls_made |-> {},
                  first_call |-> [r \in Respondents |-> 0],
                  touched |-> {},
                  read_status |-> NotRead,
                  completed_read |-> {},
                  stage2_now |-> {},
                  stage2_before |-> {},
                  stage_start |-> NoSnapshot,
                  last_abort |-> 0,
                  aborted_now |-> [r \in Respondents |-> 0],
                  aborted_prev |-> [r \in Respondents |-> 0],
                  done |-> {},
                  last_write |-> 0,
                  persisted_a |-> [r \in Respondents |->
                     IF Rank(written[r]) >= 1 THEN Some(DefaultPm01Raw(r)) ELSE None],
                  persisted_b |-> [r \in Respondents |->
                     IF Rank(written[r]) >= 2 THEN Some(DefaultPm05Raw(r)) ELSE None],
                  persisted_final |-> [r \in Respondents |->
                     IF Rank(written[r]) >= 3 THEN Some(DefaultPm01Final(r)) ELSE None],
                  invocation |-> NoInvocation]
  /\ config = prompts
  /\ error_log = <<>>
  /\ validation_log = <<>>
  /\ run_log = <<>>
  /\ pc = At("idle", 0)
  /\ run_no = 0
  /\ unprocessed = <<>>
  /\ idx = 0
  /\ questions = <<>>
  /\ start_from_step = 1
  /\ pm01_raw_results = <<>>
  /\ pm05_raw_results = <<>>
  /\ aggregated_scores = None
  /\ pm01_final = None
  /\ pm05_final = None
  /\ question_index = 0
  /\ attempt = 0
  /\ all_question_results = <<>>
  /\ total_processed = 0
  /\ total_errors = 0
  /\ reports = "none"

\* The same on a store in which every stage written is also recorded.
PipelineInit(prompts, Profiles, Statuses) ==
  /\ PipelineInitWritten(prompts, Profiles, Statuses, {FALSE})
  /\ question_sheet = QuestionHeaderRow

InitWith(prompts) ==
  /\ PipelineInit(prompts, {"complete", "no_name", "missing_answer"}, InitStatuses)
  /\ ParserIdle
  /\ MapperIdle
  /\ AggregatorIdle
  /\ ValidatorIdle
  /\ OverlapIdle

Init == InitWith(AllPrompts)

\* The config sheets of the model: all templates present, one absent, or
\* both templates the stage-4 builder looks for absent.
PromptConfigs ==
  {c \in [PromptKeys -> BOOLEAN] :
     LET absent == {k \in PromptKeys : ~c[k]}
     IN Cardinality(absent) <= 1 \/ absent = {"promptPM5Raw", "promptPM5Final"}}

InitAnyConfig == \E prompts \in PromptConfigs : InitWith(prompts)

(***************************************************************************)
(* The spec's reading of a status, stated independently of the code's      *)
(* tables above; the history and the properties use it.                    *)
(***************************************************************************)
Normalized(status) == Lower(Strip(status))

SaysDone(status, stage_name) ==
  Normalized(status) \in {stage_name \o KANRYO, stage_name \o KANSEI}

SaysStage1Done(status) == SaysDone(status, <<"p", "m", "1", "r", "a", "w">>)
SaysStage2Done(status) == SaysDone(status, <<"p", "m", "5", "r", "a", "w">>)
SaysStage3Done(status) == SaysDone(status, <<"p", "m", "1", "f", "i", "n", "a", "l">>)
SaysComplete(status) ==
  \/ SaysDone(status, <<"p", "m", "5", "f", "i", "n", "a", "l">>)
  \/ SaysDone(status, SHINDAN)

\* The number of the last stage the status says is complete.
StagesDone(status) ==
  CASE SaysComplete(status) -> 4
    [] SaysStage3Done(status) -> 3
    [] SaysStage2Done(status) -> 2
    [] SaysStage1Done(status) -> 1
    [] OTHER -> 0

(***************************************************************************)
(* History bookkeeping.                                                    *)
(***************************************************************************)
cur == unprocessed[idx].id

Quiet == [hist EXCEPT !.last_abort = 0, !.invocation = NoInvocation, !.last_kind = ""]

Snapshot(r) ==
  [status |-> status_col[r],
   rows |-> <<Len(pm1raw_sheet), Len(pm5raw_sheet), Len(pm1final_sheet),
              Len(pm5final_sheet)>>]

\* A runner invocation starts: nothing tried, called, asked or logged yet.
NewInvocation(h) ==
  [h EXCEPT !.evaluator_calls = 0, !.tries = 0, !.logged = 0, !.requests = {},
            !.log_mark = Len(error_log)]

StageBegins(h, r) == NewInvocation([h EXCEPT !.stage_start = Snapshot(r)])

Called(h, r, stage, q) ==
  [h EXCEPT !.evaluator_calls = @ + 1,
            !.calls_made = @ \cup {<<r, stage, q>>},
            !.first_call[r] = IF @ = 0 THEN stage ELSE @,
            !.touched = @ \cup {r}]

InvocationEnds(h, result, record, stage, q) ==
  [h EXCEPT !.invocation = [ended |-> TRUE, result |-> result,
                            attempts |-> h.evaluator_calls, logged |-> h.logged,
                            tries |-> h.tries, record |-> record,
                            stage |-> stage, question |-> q,
                            log_mark |-> h.log_mark]]

Aborted(h, r, stage) ==
  [h EXCEPT !.last_abort = stage, !.aborted_now[r] = stage, !.done = @ \cup {r},
            !.abort_question[r] = h.invocation.question]

Finished(h, r) == [h EXCEPT !.done = @ \cup {r}]

ReplyKinds == {"transport_error", "rejected", "raises", "valid"}

(***************************************************************************)
(* The prompt templates of the config sheet (config.py:65-91 reads them    *)
(* with required=False) and the requests built from them (LLMService).     *)
(***************************************************************************)
\* The template a stage's prompt builder finds; the stage-4 builder falls
\* back to the stage-2 template.  None makes the builder raise ValueError.
PromptTemplate(stage) ==
  CASE stage = 1 -> IF config["promptPM1Raw"] THEN Some("promptPM1Raw") ELSE None
    [] stage = 2 -> IF config["promptPM5Raw"] THEN Some("promptPM5Raw") ELSE None
    [] stage = 3 -> IF config["promptPM1Final"] THEN Some("promptPM1Final") ELSE None
    [] stage = 4 -> IF config["promptPM5Final"] THEN Some("promptPM5Final")
                    ELSE IF config["promptPM5Raw"] THEN Some("promptPM5Raw")
                    ELSE None

\* What one pass of a retry loop can meet: a builder without its template
\* raises before any evaluator call is made.
RepliesTo(stage) ==
  IF IsNone(PromptTemplate(stage)) THEN {"config_error"} ELSE ReplyKinds

Raising == {"raises", "config_error"}

AnswerAt(r, i) ==
  LET answers == respondent_data[r].answers
  IN IF i < Len(answers) THEN answers[i + 1] ELSE <<>>

ReasonAt(r, i) ==
  LET reason == respondent_data[r].reasons
  IN IF i < Len(reason) THEN reason[i + 1] ELSE <<>>

build_pm01_raw_prompt(r, q, i) ==
  [template |-> PromptTemplate(1), respondent |-> r, question |-> q,
   answer |-> AnswerAt(r, i), reason |-> ReasonAt(r, i)]

\* A variant that leaves the pass-A record out of the request.
build_pm05_raw_prompt_alone(r, q, i, pm01_raw_result) ==
  [template |-> PromptTemplate(2), respondent |-> r, question |-> q,
   answer |-> AnswerAt(r, i), reason |-> ReasonAt(r, i),
   reference |-> <<>>]

build_pm05_raw_prompt(r, q, i, pm01_raw_result) ==
  [template |-> PromptTemplate(2), respondent |-> r, question |-> q,
   answer |-> AnswerAt(r, i), reason |-> ReasonAt(r, i),
   reference |-> pm01_raw_result]

build_pm01_final_prompt(r, aggregated) ==
  [template |-> PromptTemplate(3), respondent |-> r, aggregated |-> aggregated]

build_pm05_final_prompt(r, pm01_final_result) ==
  [template |-> PromptTemplate(4), respondent |-> r, reference |-> pm01_final_result]

invoke_llm_warmer(prompt, attempt_no) ==
  [prompt |-> prompt, temperature |-> attempt_no - 1]

\* _invoke_llm and _invoke_chatgpt: the attempt number is printed, never sent.
invoke_llm(prompt, attempt_no) == [prompt |-> prompt, temperature |-> 0]

LoggedOnEveryRaise(kind, attempt_no) == IF kind \in Raising THEN 1 ELSE 0

\* The error record of the except branch, "if attempt >= max_retries".
LoggedOn(kind, attempt_no) ==
  IF kind \in Raising /\ attempt_no >= MaxRetries THEN 1 ELSE 0

\* One pass of a retry loop: the evaluator is called with the request unless
\* the prompt builder raised first.
Attempted(h, r, stage, q, kind, attempt_no, request) ==
  LET tried == [h EXCEPT !.tries = @ + 1, !.last_kind = kind,
                         !.logged = @ + LoggedOn(kind, attempt_no)]
  IN IF kind = "config_error" THEN tried
     ELSE [Called(tried, r, stage, q) EXCEPT !.requests = @ \cup {request}]

ErrorEntry(r, category, attempt_no) ==
  [respondentId |-> RespondentId(r), category |-> category, attempt |-> attempt_no]

(***************************************************************************)
(* main(): reading, filtering and validating the respondents (lines 45-111)*)
(***************************************************************************)
get_respondent_rows ==
  [r \in 1..NumRespondents |-> [id |-> r, status |-> Strip(status_col[r])]]

IsPending(row) == ~IsCompleted(row.status)

IsValid(row) == IsNone(ValidationMarker(respondent_data[row.id]))

IsInvalid(row) == ~IsValid(row)

ValidationEntries(invalid) ==
  [i \in 1..Len(invalid) |->
     [respondentId |-> RespondentId(invalid[i].id),
      marker |-> Get(ValidationMarker(respondent_data[invalid[i].id]))]]

StartRun ==
  /\ pc.at = "idle"
  /\ run_no < MaxRuns
  /\ LET all_rows == get_respondent_rows
         pending == SelectSeq(all_rows, IsPending)
         valid == SelectSeq(pending, IsValid)
         errors == SelectSeq(pending, IsInvalid)
         rejected == {errors[i].id : i \in DOMAIN errors}
     IN /\ status_col' = [r \in Respondents |->
                            IF r \in rejected
                            THEN Get(ValidationMarker(respondent_data[r]))
                            ELSE status_col[r]]
        /\ validation_log' = validation_log \o ValidationEntries(errors)
        /\ IF valid = <<>>
           THEN /\ pc' = At("idle", 0)
                /\ UNCHANGED <<unprocessed, idx, questions, countVars>>
           ELSE /\ pc' = At("loop", 0)
                /\ unprocessed' = valid
                /\ idx' = 0
                /\ questions' = get_question_rows(question_sheet)
                /\ total_processed' = 0
                /\ total_errors' = 0
        /\ hist' = [Quiet EXCEPT
                      !.calls_made = {},
                      !.first_call = [r \in Respondents |-> 0],
                      !.touched = rejected,
                      !.done = {},
                      !.read_status = NotRead,
                      !.completed_read = @ \cup
                         {r \in Respondents : SaysComplete(status_col[r])},
                      !.stage2_now = {r \in Respondents : SaysStage2Done(status_col[r])},
                      !.stage2_before = @ \cup hist.stage2_now,
                      !.aborted_prev = hist.aborted_now,
                      !.aborted_now = [r \in Respondents |-> 0],
                      !.abort_question = [r \in Respondents |-> 0],
                      !.counted_before = <<0, 0>>,
                      !.run_log_mark = Len(run_log)]
  /\ run_no' = run_no + 1
  /\ error_log' = <<>>
  /\ UNCHANGED <<inputVars, sheetVars, run_log, start_from_step, resultVars,
                 runnerVars, reports>>

\* Lines 117-135: the next respondent of the loop and its starting step.
NextRespondent ==
  /\ pc.at = "loop"
  /\ idx < Len(unprocessed)
  /\ idx' = idx + 1
  /\ start_from_step' = StartStep(unprocessed[idx + 1].status)
  /\ pc' = At("enter", 1)
  /\ pm01_raw_results' = <<>>
  /\ pm05_raw_results' = <<>>
  /\ aggregated_scores' = None
  /\ pm01_final' = None
  /\ pm05_final' = None
  /\ question_index' = 0
  /\ attempt' = 0
  /\ all_question_results' = <<>>
  /\ reports' = "none"
  /\ error_log' = <<>>
  /\ hist' = [Quiet EXCEPT !.read_status = status_col[unprocessed[idx + 1].id],
                           !.counted_before = <<total_processed, total_errors>>]
  /\ UNCHANGED <<inputVars, status_col, sheetVars, validation_log, run_log,
                 run_no, unprocessed, questions, countVars>>

\* Lines 413-421: the run log entry that closes the run.
write_run_log ==
  /\ pc.at = "loop"
  /\ idx = Len(unprocessed)
  /\ run_log' = Append(run_log, [processed |-> total_processed, errors |-> total_errors])
  /\ pc' = At("idle", 0)
  /\ hist' = Quiet
  /\ UNCHANGED <<inputVars, status_col, sheetVars, error_log, validation_log,
                 run_no, loopVars, resultVars, runnerVars, countVars,
                 reports>>

AbortStageUncounted(stage) ==
  /\ pc' = At("loop", 0)
  /\ UNCHANGED <<total_processed, total_errors>>

AbortStageCountedAsProcessed(stage) ==
  /\ total_processed' = total_processed + 1
  /\ pc' = At("loop", 0)
  /\ UNCHANGED total_errors

AbortStageStopsBatch(stage) ==
  /\ total_errors' = total_errors + 1
  /\ pc' = At("idle", 0)
  /\ UNCHANGED total_processed

\* "total_errors += 1; continue" of a stage that ends without a result.
AbortStage(stage) ==
  /\ total_errors' = total_errors + 1
  /\ pc' = At("loop", 0)
  /\ UNCHANGED total_processed

MayAttemptInclusive(attempt_no) == attempt_no <= MaxRetries

\* The guard of the retry loops, "while attempt < max_retries".
MayAttempt(attempt_no) == attempt_no < MaxRetries

LogFailure(kind, attempt_no, category) ==
  error_log' = IF LoggedOn(kind, attempt_no) = 1
               THEN Append(error_log, ErrorEntry(cur, category, MaxRetries))
               ELSE error_log

(***************************************************************************)
(* STEP 1 (main.py:137-193, run_pm01_raw 437-500).                         *)
(***************************************************************************)
Step1Run ==
  /\ pc = At("enter", 1)
  /\ start_from_step <= 1
  /\ all_question_results' = <<>>
  /\ attempt' = 0
  /\ IF questions = <<>>
     THEN /\ AbortStage(1)
          /\ question_index' = 0
          /\ hist' = Aborted(StageBegins(Quiet, cur), cur, 1)
     ELSE /\ pc' = At("attempt", 1)
          /\ question_index' = 1
          /\ hist' = StageBegins(Quiet, cur)
          /\ UNCHANGED countVars
  /\ UNCHANGED <<inputVars, storeVars, run_no, loopVars,
                 resultVars, reports>>

Step1Skip ==
  /\ pc = At("enter", 1)
  /\ start_from_step > 1
  /\ LET loaded == LoadPm1Raw(pm1raw_sheet, cur)
     IN /\ pm01_raw_results' = loaded
        /\ IF DOMAIN loaded = {}
           THEN /\ total_errors' = total_errors + 1
                /\ pc' = At("loop", 0)
                /\ hist' = Finished(Quiet, cur)
           ELSE /\ total_errors' = total_errors
                /\ pc' = At("enter", 2)
                /\ hist' = Quiet
  /\ UNCHANGED <<inputVars, storeVars, run_no, loopVars,
                 pm05_raw_results, aggregated_scores, pm01_final, pm05_final,
                 runnerVars, total_processed, reports>>

\* One pass of the retry loop of run_pm01_raw for the question at hand.
run_pm01_raw ==
  /\ pc = At("attempt", 1)
  /\ MayAttempt(attempt)
  /\ \E kind \in RepliesTo(1) :
       LET attempt_no == attempt + 1
           v == ReplyVariant(cur, run_no)
           q == questions[question_index].number
           reply == Pm01RawRecord(q, v)
           request == invoke_llm(build_pm01_raw_prompt(cur, q, question_index - 1), attempt_no)
           h == Attempted(Quiet, cur, 1, q, kind, attempt_no, request)
       IN IF kind = "valid"
          THEN LET results == (q :> reply) @@ all_question_results
               IN /\ all_question_results' = results
                  /\ attempt' = 0
                  /\ hist' = NewInvocation(InvocationEnds(h, "record", Some(reply), 1, q))
                  /\ IF question_index < Len(questions)
                     THEN /\ question_index' = question_index + 1
                          /\ UNCHANGED <<pc, pm01_raw_results>>
                     ELSE /\ pm01_raw_results' = results
                          /\ pc' = At("write", 1)
                          /\ UNCHANGED question_index
                  /\ UNCHANGED <<error_log, countVars>>
          ELSE /\ LogFailure(kind, attempt_no, "PM01_RAW_FAILED")
               /\ attempt' = attempt_no
               /\ UNCHANGED <<all_question_results, question_index, pm01_raw_results>>
               /\ IF MayAttempt(attempt_no)
                  THEN /\ hist' = h
                       /\ UNCHANGED <<pc, countVars>>
                  ELSE /\ AbortStage(1)
                       /\ hist' = Aborted(InvocationEnds(h, "none", None, 1, q), cur, 1)
  /\ UNCHANGED <<inputVars, status_col, sheetVars, validation_log, run_log,
                 run_no, loopVars, pm05_raw_results,
                 aggregated_scores, pm01_final, pm05_final, reports>>

write_pm1raw_results ==
  /\ pc = At("write", 1)
  /\ pm1raw_sheet' = pm1raw_sheet \o Pm1RawRows(cur, pm01_raw_results)
  /\ pc' = At("status", 1)
  /\ hist' = [Quiet EXCEPT !.persisted_a[cur] = Some(pm01_raw_results),
                           !.touched = @ \cup {cur}]
  /\ UNCHANGED <<inputVars, status_col, pm5raw_sheet, pm1final_sheet,
                 pm5final_sheet, error_log, validation_log, run_log, run_no,
                 loopVars, resultVars, runnerVars, countVars, reports>>

\* sheets.update_respondent_status(rowIndex, label) after a stage's write
\* (lines 159, 218, 320, 373).
update_respondent_status ==
  /\ pc.at = "status"
  /\ status_col' = [status_col EXCEPT ![cur] = StageLabel(pc.step)]
  /\ pc' = IF pc.step < 4 THEN At("enter", pc.step + 1) ELSE At("report", 4)
  /\ hist' = [Quiet EXCEPT !.touched = @ \cup {cur}]
  /\ UNCHANGED <<inputVars, sheetVars, error_log, validation_log, run_log,
                 run_no, loopVars, resultVars, runnerVars, countVars, reports>>

(***************************************************************************)
(* STEP 2 (main.py:195-246, run_pm05_raw 503-574).                         *)
(***************************************************************************)
Step2Run ==
  /\ pc = At("enter", 2)
  /\ start_from_step <= 2
  /\ all_question_results' = <<>>
  /\ attempt' = 0
  /\ IF questions = <<>> \/ questions[1].number \notin DOMAIN pm01_raw_results
     THEN /\ AbortStage(2)
          /\ question_index' = 0
          /\ hist' = Aborted(StageBegins(Quiet, cur), cur, 2)
     ELSE /\ pc' = At("attempt", 2)
          /\ question_index' = 1
          /\ hist' = StageBegins(Quiet, cur)
          /\ UNCHANGED countVars
  /\ UNCHANGED <<inputVars, storeVars, run_no, loopVars,
                 resultVars, reports>>

Step2Skip ==
  /\ pc = At("enter", 2)
  /\ start_from_step > 2
  /\ LET loaded == LoadPm5Raw(pm5raw_sheet, cur)
     IN /\ pm05_raw_results' = loaded
        /\ IF DOMAIN loaded = {}
           THEN /\ total_errors' = total_errors + 1
                /\ pc' = At("loop", 0)
                /\ hist' = Finished(Quiet, cur)
           ELSE /\ total_errors' = total_errors
                /\ pc' = At("enter", 3)
                /\ hist' = Quiet
  /\ UNCHANGED <<inputVars, storeVars, run_no, loopVars,
                 pm01_raw_results, aggregated_scores, pm01_final, pm05_final,
                 runnerVars, total_processed, reports>>

\* One pass of the retry loop of run_pm05_raw; the pass-A record of the
\* question is the reference handed to the evaluator.
run_pm05_raw ==
  /\ pc = At("attempt", 2)
  /\ MayAttempt(attempt)
  /\ \E kind \in RepliesTo(2) :
       LET attempt_no == attempt + 1
           v == ReplyVariant(cur, run_no)
           q == questions[question_index].number
           reply == Pm05RawRecord(q, v)
           request == invoke_llm(build_pm05_raw_prompt(cur, q, question_index - 1,
                                  pm01_raw_results[q]), attempt_no)
           h == Attempted(Quiet, cur, 2, q, kind, attempt_no, request)
       IN IF kind = "valid"
          THEN LET results == (q :> reply) @@ all_question_results
               IN /\ all_question_results' = results
                  /\ attempt' = 0
                  /\ IF question_index < Len(questions)
                     THEN IF questions[question_index + 1].number
                               \in DOMAIN pm01_raw_results
                          THEN /\ question_index' = question_index + 1
                               /\ hist' = NewInvocation(InvocationEnds(h, "record", Some(reply), 2, q))
                               /\ UNCHANGED <<pc, pm05_raw_results, countVars>>
                          ELSE /\ AbortStage(2)
                               /\ hist' = Aborted(InvocationEnds(h, "record", Some(reply), 2, q), cur, 2)
                               /\ UNCHANGED <<question_index, pm05_raw_results>>
                     ELSE /\ pm05_raw_results' = results
                          /\ pc' = At("write", 2)
                          /\ hist' = NewInvocation(InvocationEnds(h, "record", Some(reply), 2, q))
                          /\ UNCHANGED <<question_index, countVars>>
                  /\ UNCHANGED error_log
          ELSE /\ LogFailure(kind, attempt_no, "PM05_RAW_FAILED")
               /\ attempt' = attempt_no
               /\ UNCHANGED <<all_question_results, question_index, pm05_raw_results>>
               /\ IF MayAttempt(attempt_no)
                  THEN /\ hist' = h
                       /\ UNCHANGED <<pc, countVars>>
                  ELSE /\ AbortStage(2)
                       /\ hist' = Aborted(InvocationEnds(h, "none", None, 2, q), cur, 2)
  /\ UNCHANGED <<inputVars, status_col, sheetVars, validation_log, run_log,
                 run_no, loopVars, pm01_raw_results,
                 aggregated_scores, pm01_final, pm05_final, reports>>

write_pm5raw_results ==
  /\ pc = At("write", 2)
  /\ pm5raw_sheet' = pm5raw_sheet \o Pm5RawRows(cur, pm05_raw_results)
  /\ pc' = At("status", 2)
  /\ hist' = [Quiet EXCEPT !.persisted_b[cur] = Some(pm05_raw_results),
                           !.touched = @ \cup {cur}]
  /\ UNCHANGED <<inputVars, status_col, pm1raw_sheet, pm1final_sheet,
                 pm5final_sheet, error_log, validation_log, run_log, run_no,
                 loopVars, resultVars, runnerVars, countVars, reports>>

(***************************************************************************)
(* STEP 3 (main.py:248-354).                                               *)
(***************************************************************************)
Step3Run ==
  /\ pc = At("enter", 3)
  /\ start_from_step <= 3
  /\ aggregated_scores' =
       Some(aggregate_pm05_raw_scores(pm05_raw_results, pm01_raw_results, questions))
  /\ attempt' = 0
  /\ pc' = At("attempt", 3)
  /\ hist' = StageBegins(Quiet, cur)
  /\ UNCHANGED <<inputVars, storeVars, run_no, loopVars,
                 pm01_raw_results, pm05_raw_results, pm01_final, pm05_final,
                 question_index, all_question_results, countVars, reports>>

\* Lines 325-354: the stored synthesis, read back when stage 3 is skipped.
Step3Skip ==
  /\ pc = At("enter", 3)
  /\ start_from_step > 3
  /\ LET loaded == LoadPm1Final(pm1final_sheet, cur)
     IN /\ pm01_final' = loaded
        /\ IF IsNone(loaded)
           THEN /\ total_errors' = total_errors + 1
                /\ pc' = At("loop", 0)
                /\ hist' = Finished(Quiet, cur)
           ELSE /\ total_errors' = total_errors
                /\ pc' = At("enter", 4)
                /\ hist' = Quiet
  /\ UNCHANGED <<inputVars, storeVars, run_no, loopVars,
                 pm01_raw_results, pm05_raw_results, aggregated_scores, pm05_final,
                 runnerVars, total_processed, reports>>

\* One pass of the retry loop of lines 270-296, and lines 298-313 after it.
run_pm01_final_analysis ==
  /\ pc = At("attempt", 3)
  /\ MayAttempt(attempt)
  /\ \E kind \in RepliesTo(3) :
       LET attempt_no == attempt + 1
           v == ReplyVariant(cur, run_no)
           reply == Pm01FinalAnalysis(v)
           request == invoke_llm(build_pm01_final_prompt(cur, Get(aggregated_scores)),
                                 attempt_no)
           h == Attempted(Quiet, cur, 3, 0, kind, attempt_no, request)
       IN IF kind = "valid"
          THEN /\ pm01_final' = Some(combine_pm01_final(Get(aggregated_scores),
                                                        reply))
               /\ attempt' = attempt_no
               /\ pc' = At("write", 3)
               /\ hist' = InvocationEnds(h, "record", Some(reply), 3, 0)
               /\ UNCHANGED <<error_log, countVars>>
          ELSE /\ LogFailure(kind, attempt_no, "PM01_FINAL_FAILED")
               /\ attempt' = attempt_no
               /\ UNCHANGED pm01_final
               /\ IF MayAttempt(attempt_no)
                  THEN /\ hist' = h
                       /\ UNCHANGED <<pc, countVars>>
                  ELSE /\ AbortStage(3)
                       /\ hist' = Aborted(InvocationEnds(h, "none", None, 3, 0), cur, 3)
  /\ UNCHANGED <<inputVars, status_col, sheetVars, validation_log, run_log,
                 run_no, loopVars, pm01_raw_results,
                 pm05_raw_results, aggregated_scores, pm05_final, question_index,
                 all_question_results, reports>>

write_pm1final_results ==
  /\ pc = At("write", 3)
  /\ pm1final_sheet' = Append(pm1final_sheet, Pm1FinalRow(cur, Get(pm01_final)))
  /\ pc' = At("status", 3)
  /\ hist' = [Quiet EXCEPT !.persisted_final[cur] = pm01_final,
                           !.touched = @ \cup {cur}]
  /\ UNCHANGED <<inputVars, status_col, pm1raw_sheet, pm5raw_sheet,
                 pm5final_sheet, error_log, validation_log, run_log, run_no,
                 loopVars, resultVars, runnerVars, countVars, reports>>

(***************************************************************************)
(* STEP 4 (main.py:356-396, run_pm05_final 577-631).                       *)
(***************************************************************************)
Step4Run ==
  /\ pc = At("enter", 4)
  /\ attempt' = 0
  /\ pc' = At("attempt", 4)
  /\ hist' = StageBegins(Quiet, cur)
  /\ UNCHANGED <<inputVars, storeVars, run_no, loopVars,
                 resultVars, question_index, all_question_results, countVars,
                 reports>>

run_pm05_final ==
  /\ pc = At("attempt", 4)
  /\ MayAttempt(attempt)
  /\ \E kind \in RepliesTo(4) :
       LET attempt_no == attempt + 1
           v == ReplyVariant(cur, run_no)
           reply == Pm05FinalRecord(v)
           request == invoke_llm(build_pm05_final_prompt(cur, Get(pm01_final)), attempt_no)
           h == Attempted(Quiet, cur, 4, 0, kind, attempt_no, request)
       IN IF kind = "valid"
          THEN /\ pm05_final' = Some(process_pm05_final(reply))
               /\ attempt' = attempt_no
               /\ pc' = At("write", 4)
               /\ hist' = InvocationEnds(h, "record", Some(reply), 4, 0)
               /\ UNCHANGED <<error_log, countVars>>
          ELSE /\ LogFailure(kind, attempt_no, "PM05_FINAL_FAILED")
               /\ attempt' = attempt_no
               /\ UNCHANGED pm05_final
               /\ IF MayAttempt(attempt_no)
                  THEN /\ hist' = h
                       /\ UNCHANGED <<pc, countVars>>
                  ELSE /\ AbortStage(4)
                       /\ hist' = Aborted(InvocationEnds(h, "none", None, 4, 0), cur, 4)
  /\ UNCHANGED <<inputVars, status_col, sheetVars, validation_log, run_log,
                 run_no, loopVars, pm01_raw_results,
                 pm05_raw_results, aggregated_scores, pm01_final, question_index,
                 all_question_results, reports>>

write_pm5final_results ==
  /\ pc = At("write", 4)
  /\ pm5final_sheet' = Append(pm5final_sheet, Pm5FinalRow(cur, Get(pm05_final)))
  /\ pc' = At("status", 4)
  /\ hist' = [Quiet EXCEPT !.touched = @ \cup {cur}]
  /\ UNCHANGED <<inputVars, status_col, pm1raw_sheet, pm5raw_sheet,
                 pm1final_sheet, error_log, validation_log, run_log, run_no,
                 loopVars, resultVars, runnerVars, countVars, reports>>

\* A variant in which a failed report fails the respondent.
generate_individual_report_or_fail ==
  /\ pc = At("report", 4)
  /\ \E written \in BOOLEAN :
       /\ reports' = IF written THEN "written" ELSE "failed"
       /\ total_processed' = IF written THEN total_processed + 1 ELSE total_processed
       /\ total_errors' = IF written THEN total_errors ELSE total_errors + 1
  /\ pc' = At("loop", 0)
  /\ hist' = Finished(Quiet, cur)
  /\ UNCHANGED <<inputVars, storeVars, run_no, loopVars, resultVars, runnerVars>>

\* Lines 376-393: the report, whose failure is a warning only.
generate_individual_report ==
  /\ pc = At("report", 4)
  /\ \E written \in BOOLEAN :
       reports' = IF written THEN "written" ELSE "failed"
  /\ total_processed' = total_processed + 1
  /\ pc' = At("loop", 0)
  /\ hist' = Finished(Quiet, cur)
  /\ UNCHANGED <<inputVars, storeVars, run_no, loopVars,
                 resultVars, runnerVars, total_errors>>

\* Lines 398-411: an exception raised while the respondent is processed,
\* here by the store refusing the append of the stage-4 row (line 369).  The
\* respondent is counted as an error, PROCESSING_ERROR is logged and the
\* loop goes on.
processing_error ==
  /\ pc = At("write", 4)
  /\ total_errors' = total_errors + 1
  /\ error_log' = Append(error_log, ErrorEntry(cur, "PROCESSING_ERROR", 1))
  /\ pc' = At("loop", 0)
  /\ hist' = Finished(Quiet, cur)
  /\ UNCHANGED <<inputVars, status_col, sheetVars, validation_log, run_log,
                 run_no, loopVars, resultVars, runnerVars, total_processed,
                 reports>>

Next ==
  \/ StartRun
  \/ NextRespondent
  \/ write_run_log
  \/ Step1Run
  \/ Step1Skip
  \/ run_pm01_raw
  \/ write_pm1raw_results
  \/ update_respondent_status
  \/ Step2Run
  \/ Step2Skip
  \/ run_pm05_raw
  \/ write_pm5raw_results
  \/ Step3Run
  \/ Step3Skip
  \/ run_pm01_final_analysis
  \/ write_pm1final_results
  \/ Step4Run
  \/ run_pm05_final
  \/ write_pm5final_results
  \/ generate_individual_report
  \/ processing_error

Spec == Init /\ [][Next]_vars

\* update_cell raises in sheets.update_respondent_status after the write of
\* stage 1 or 2 (main.py:159, 218): the handler of the respondent loop
\* counts an error and logs it (main.py:397-409), and the status stays.
update_respondent_status_raises ==
  /\ pc.at = "status"
  /\ pc.step \in {1, 2}
  /\ total_errors' = total_errors + 1
  /\ error_log' = Append(error_log, ErrorEntry(cur, "PROCESSING_ERROR", 1))
  /\ pc' = At("loop", 0)
  /\ hist' = Finished(Quiet, cur)
  /\ UNCHANGED <<inputVars, status_col, sheetVars, validation_log, run_log,
                 run_no, loopVars, resultVars, runnerVars, total_processed,
                 reports>>

\* The program on a store on which an earlier run may have written the rows
\* of stage 1 or 2 without recording the stage, and with status updates
\* that may fail again.
ResumeInit ==
  /\ PipelineInitWritten(AllPrompts, {"complete"}, {<<>>, PM1RawDone}, BOOLEAN)
  /\ question_sheet = QuestionHeaderRow
  /\ ParserIdle
  /\ MapperIdle
  /\ AggregatorIdle
  /\ ValidatorIdle
  /\ OverlapIdle

ResumeNext == Next \/ update_respondent_status_raises

ResumeSpec == ResumeInit /\ [][ResumeNext]_vars

\* The header rows of the questions sheet: both headers valid, in sheet
\* order or swapped, and one header that get_question_rows skips (a cell
\* that is not "Q" and a number of 1..6, sheets.py:212-226).
InvalidHeader == 0

HeaderRows ==
  {QuestionHeaderRow, <<2, 1>>, <<1, InvalidHeader>>, <<InvalidHeader, 2>>}

\* The questions sheet is edited between two runs; main() reads it once per
\* run (main.py:105).
edit_question_sheet ==
  /\ pc.at = "idle"
  /\ run_no < MaxRuns
  /\ \E header_row \in HeaderRows \ {question_sheet} :
       question_sheet' = header_row
  /\ UNCHANGED <<respondent_data, config, parserVars, mapperVars, aggregatorVars,
                 validatorVars, overlapVars, storeVars, pc, run_no, loopVars, resultVars, runnerVars,
                 countVars, reports, hist>>

\* The program on an empty store, with a questions sheet some of whose
\* headers may be invalid and may be repaired or broken between runs.
SheetInit ==
  /\ PipelineInitWritten(AllPrompts, {"complete"}, {<<>>}, {FALSE})
  /\ question_sheet \in HeaderRows
  /\ ParserIdle
  /\ MapperIdle
  /\ AggregatorIdle
  /\ ValidatorIdle
  /\ OverlapIdle

SheetNext == Next \/ edit_question_sheet

SheetSpec == SheetInit /\ [][SheetNext]_vars

(***************************************************************************)
(* The HTTP batch path: start_diagnosis of app.py runs the same loop over  *)
(* the valid respondents with the runners of main.py (run_pm01_raw,        *)
(* run_pm05_raw, run_pm05_final) and its own code for the rest             *)
(* (app.py:129-331).  The actions below are the steps that differ from     *)
(* main(); the others are shared.                                          *)
(***************************************************************************)
\* app.py:160-178: the pass-A rows read back; an empty result does not end
\* the respondent here.
HttpStep1Skip ==
  /\ pc = At("enter", 1)
  /\ start_from_step > 1
  /\ pm01_raw_results' = LoadPm1Raw(pm1raw_sheet, cur)
  /\ pc' = At("enter", 2)
  /\ hist' = Quiet
  /\ UNCHANGED <<inputVars, storeVars, run_no, loopVars,
                 pm05_raw_results, aggregated_scores, pm01_final, pm05_final,
                 runnerVars, countVars, reports>>

\* app.py:198-212: the pass-B rows read back.
HttpStep2Skip ==
  /\ pc = At("enter", 2)
  /\ start_from_step > 2
  /\ pm05_raw_results' = LoadPm5Raw(pm5raw_sheet, cur)
  /\ pc' = At("enter", 3)
  /\ hist' = Quiet
  /\ UNCHANGED <<inputVars, storeVars, run_no, loopVars,
                 pm01_raw_results, aggregated_scores, pm01_final, pm05_final,
                 runnerVars, countVars, reports>>

\* app.py:215: "if start_from_step <= 3" has no else branch.
HttpStep3Skip ==
  /\ pc = At("enter", 3)
  /\ start_from_step > 3
  /\ pc' = At("enter", 4)
  /\ hist' = Quiet
  /\ UNCHANGED <<inputVars, storeVars, run_no, loopVars, resultVars,
                 runnerVars, countVars, reports>>

\* One pass of the retry loop of app.py:228-249 and lines 250-268 after it:
\* ScoringEngine has no method process_pm01_final, so the call of line 251
\* raises AttributeError, which the handler of the respondent loop catches
\* (app.py:317-328): an error is counted and PROCESSING_ERROR is logged.
HttpRunPm01FinalAnalysis ==
  /\ pc = At("attempt", 3)
  /\ MayAttempt(attempt)
  /\ \E kind \in RepliesTo(3) :
       LET attempt_no == attempt + 1
           v == ReplyVariant(cur, run_no)
           reply == Pm01FinalAnalysis(v)
           request == invoke_llm(build_pm01_final_prompt(cur, Get(aggregated_scores)),
                                 attempt_no)
           h == Attempted(Quiet, cur, 3, 0, kind, attempt_no, request)
       IN IF kind = "valid"
          THEN /\ total_errors' = total_errors + 1
               /\ error_log' = Append(error_log, ErrorEntry(cur, "PROCESSING_ERROR", 1))
               /\ attempt' = attempt_no
               /\ pc' = At("loop", 0)
               /\ hist' = Finished(InvocationEnds(h, "record", Some(reply), 3, 0), cur)
               /\ UNCHANGED total_processed
          ELSE /\ LogFailure(kind, attempt_no, "PM01_FINAL_FAILED")
               /\ attempt' = attempt_no
               /\ IF MayAttempt(attempt_no)
                  THEN /\ hist' = h
                       /\ UNCHANGED <<pc, countVars>>
                  ELSE /\ AbortStage(3)
                       /\ hist' = Aborted(InvocationEnds(h, "none", None, 3, 0), cur, 3)
  /\ UNCHANGED <<inputVars, status_col, sheetVars, validation_log, run_log,
                 run_no, loopVars, resultVars, question_index,
                 all_question_results, reports>>

\* app.py:270-291: stage 4 reads the synthesis back from the sheet in every
\* case, with the columns the writer fills.
HttpStep4Run ==
  /\ pc = At("enter", 4)
  /\ LET loaded == LoadPm1FinalAligned(pm1final_sheet, cur)
     IN /\ pm01_final' = loaded
        /\ attempt' = 0
        /\ IF IsNone(loaded)
           THEN /\ total_errors' = total_errors + 1
                /\ pc' = At("loop", 0)
                /\ hist' = Finished(Quiet, cur)
                /\ UNCHANGED total_processed
           ELSE /\ pc' = At("attempt", 4)
                /\ hist' = StageBegins(Quiet, cur)
                /\ UNCHANGED countVars
  /\ UNCHANGED <<inputVars, storeVars, run_no, loopVars,
                 pm01_raw_results, pm05_raw_results, aggregated_scores, pm05_final,
                 question_index, all_question_results, reports>>

\* sheets.update_respondent_status after a stage's write (app.py:156, 194,
\* 304); after stage 4 the respondent is counted and no report is made.
HttpUpdateRespondentStatus ==
  /\ pc.at = "status"
  /\ status_col' = [status_col EXCEPT ![cur] = StageLabel(pc.step)]
  /\ IF pc.step < 4
     THEN /\ pc' = At("enter", pc.step + 1)
          /\ hist' = [Quiet EXCEPT !.touched = @ \cup {cur}]
          /\ UNCHANGED countVars
     ELSE /\ pc' = At("loop", 0)
          /\ total_processed' = total_processed + 1
          /\ hist' = Finished([Quiet EXCEPT !.touched = @ \cup {cur}], cur)
          /\ UNCHANGED total_errors
  /\ UNCHANGED <<inputVars, sheetVars, error_log, validation_log, run_log,
                 run_no, loopVars, resultVars, runnerVars, reports>>

\* app.py:330-331: the loop ends with a message; no run log is written.
HttpFinish ==
  /\ pc.at = "loop"
  /\ idx = Len(unprocessed)
  /\ pc' = At("idle", 0)
  /\ hist' = Quiet
  /\ UNCHANGED <<inputVars, storeVars, run_no, loopVars, resultVars,
                 runnerVars, countVars, reports>>

HttpInit ==
  /\ PipelineInit(AllPrompts, {"complete"},
                  {<<>>, PM1RawDone, PM5RawDone, PM1FinalDone})
  /\ ParserIdle
  /\ MapperIdle
  /\ AggregatorIdle
  /\ ValidatorIdle
  /\ OverlapIdle

HttpNext ==
  \/ StartRun
  \/ NextRespondent
  \/ HttpFinish
  \/ Step1Run
  \/ HttpStep1Skip
  \/ run_pm01_raw
  \/ write_pm1raw_results
  \/ HttpUpdateRespondentStatus
  \/ Step2Run
  \/ HttpStep2Skip
  \/ run_pm05_raw
  \/ write_pm5raw_results
  \/ Step3Run
  \/ HttpStep3Skip
  \/ HttpRunPm01FinalAnalysis
  \/ HttpStep4Run
  \/ run_pm05_final
  \/ write_pm5final_results

HttpSpec == HttpInit /\ [][HttpNext]_vars

(***************************************************************************)
(* Two batch runs on one store (two main() processes, or two requests to   *)
(* start_diagnosis, whose "running" flag nothing tests).  A run reads the  *)
(* respondent rows once, at its start (main.py:45-55, app.py:89-96), takes *)
(* the stage to start at from the status it read (main.py:124-135), and    *)
(* for each stage executes it, appends its rows and updates the status     *)
(* cell (sheets.py:384-395).  Each of these is one step here, so every     *)
(* status read and update is atomic; the steps of the two runs interleave. *)
(* A stage is taken as a whole, with the records of ReplyVariant 0, and    *)
(* the evaluator answers every call with a valid record.                   *)
(***************************************************************************)
RunAt(k) == batch_runs[k].rows[batch_runs[k].idx].id

\* The run reads the rows and keeps the pending, valid ones.
start_batch(k) ==
  /\ batch_runs[k].at = "idle"
  /\ LET valid == SelectSeq(SelectSeq(get_respondent_rows, IsPending), IsValid)
     IN batch_runs' = [batch_runs EXCEPT ![k] =
                        [at |-> "loop", rows |-> valid, idx |-> 0, step |-> 0]]
  /\ UNCHANGED <<executed_by, respondent_data, config, question_sheet, parserVars,
                 mapperVars, aggregatorVars, validatorVars, storeVars, pc, run_no,
                 loopVars, resultVars, runnerVars, countVars, reports, hist>>

\* The next respondent of the list, started at the stage its status, as
\* read at the start of the run, names; or the end of the run.
next_in_batch(k) ==
  /\ batch_runs[k].at = "loop"
  /\ batch_runs' = [batch_runs EXCEPT ![k] =
       IF @.idx < Len(@.rows)
       THEN [@ EXCEPT !.idx = @ + 1, !.at = "stage",
                      !.step = StartStep(batch_runs[k].rows[batch_runs[k].idx + 1].status)]
       ELSE [@ EXCEPT !.at = "done"]]
  /\ UNCHANGED <<executed_by, respondent_data, config, question_sheet, parserVars,
                 mapperVars, aggregatorVars, validatorVars, storeVars, pc, run_no,
                 loopVars, resultVars, runnerVars, countVars, reports, hist>>

\* The evaluator calls of one stage, each answered with a valid record.
execute_stage(k) ==
  /\ batch_runs[k].at = "stage"
  /\ executed_by' = [executed_by EXCEPT ![RunAt(k)][batch_runs[k].step] = @ \cup {k}]
  /\ batch_runs' = [batch_runs EXCEPT ![k].at = "write"]
  /\ UNCHANGED <<respondent_data, config, question_sheet, parserVars,
                 mapperVars, aggregatorVars, validatorVars, storeVars, pc, run_no,
                 loopVars, resultVars, runnerVars, countVars, reports, hist>>

\* The rows of the stage are appended to its sheet.
write_stage_results(k) ==
  /\ batch_runs[k].at = "write"
  /\ LET r == RunAt(k)
         stage == batch_runs[k].step
     IN /\ pm1raw_sheet' = IF stage = 1
                           THEN pm1raw_sheet \o Pm1RawRows(r, DefaultPm01Raw(r))
                           ELSE pm1raw_sheet
        /\ pm5raw_sheet' = IF stage = 2
                           THEN pm5raw_sheet \o Pm5RawRows(r, DefaultPm05Raw(r))
                           ELSE pm5raw_sheet
        /\ pm1final_sheet' = IF stage = 3
                             THEN Append(pm1final_sheet, Pm1FinalRow(r, DefaultPm01Final(r)))
                             ELSE pm1final_sheet
        /\ pm5final_sheet' = IF stage = 4
                             THEN Append(pm5final_sheet, Pm5FinalRow(r, DefaultPm05Final(r)))
                             ELSE pm5final_sheet
  /\ batch_runs' = [batch_runs EXCEPT ![k].at = "status"]
  /\ UNCHANGED <<executed_by, respondent_data, config, question_sheet, parserVars,
                 mapperVars, aggregatorVars, validatorVars, status_col, error_log,
                 validation_log, run_log, pc, run_no,
                 loopVars, resultVars, runnerVars, countVars, reports, hist>>

\* The status cell of the respondent is set to the label of the stage.
update_status_in_batch(k) ==
  /\ batch_runs[k].at = "status"
  /\ status_col' = [status_col EXCEPT ![RunAt(k)] = StageLabel(batch_runs[k].step)]
  /\ batch_runs' = [batch_runs EXCEPT ![k] =
       IF @.step < 4 THEN [@ EXCEPT !.at = "stage", !.step = @ + 1]
       ELSE [@ EXCEPT !.at = "loop"]]
  /\ UNCHANGED <<executed_by, respondent_data, config, question_sheet, parserVars,
                 mapperVars, aggregatorVars, validatorVars, sheetVars, error_log,
                 validation_log, run_log, pc, run_no,
                 loopVars, resultVars, runnerVars, countVars, reports, hist>>

OverlapInit ==
  /\ PipelineInit(AllPrompts, {"complete"}, {<<>>, PM1FinalDone})
  /\ ParserIdle
  /\ MapperIdle
  /\ AggregatorIdle
  /\ ValidatorIdle
  /\ OverlapIdle

OverlapNext ==
  \E k \in BatchRuns :
     \/ start_batch(k)
     \/ next_in_batch(k)
     \/ execute_stage(k)
     \/ write_stage_results(k)
     \/ update_status_in_batch(k)

OverlapSpec == OverlapInit /\ [][OverlapNext]_vars

\* The program started on a store no run has touched yet.
FreshInit == Init /\ \A r \in Respondents : status_col[r] = <<>>

\* main() runs its steps one after the other; as long as every evaluator
\* and store call returns, the step at hand is eventually taken.
FairSpec == FreshInit /\ [][Next]_vars /\ WF_vars(Next)

\* The same program started on any config sheet get_config accepts.
SpecAnyConfig == InitAnyConfig /\ [][Next]_vars

(***************************************************************************)
(* The reply parser (services/json_parser.py).  A reply text is a sequence *)
(* of tokens: single characters, the three-backtick fence marker taken as  *)
(* one token, and the members of a JSON object, each '"key": value' taken  *)
(* whole.  A JSON value is a typed cell; numbers are in thousandths, NaN   *)
(* is the literal json.loads accepts.                                      *)
(***************************************************************************)
JNum(n) == [t |-> "num", v |-> n]
JStr(s) == [t |-> "str", v |-> s]
JList(xs) == [t |-> "list", v |-> xs]
JDict(d) == [t |-> "dict", v |-> d]
JNull == [t |-> "null", v |-> 0]
JNaN == [t |-> "nan", v |-> 0]

Sym(c) == [m |-> FALSE, k |-> c, v |-> JNull]
Member(key, value) == [m |-> TRUE, k |-> key, v |-> value]
Chars(s) == [i \in 1..Len(s) |-> Sym(s[i])]

FENCE == Sym("fence")
NL == Sym("\n")
SP == Sym(" ")
LBRACE == Sym("{")
RBRACE == Sym("}")
LBRACK == Sym("[")
RBRACK == Sym("]")
COMMA == Sym(",")

IsSpace(tok) == tok \in {SP, NL}

\* str.strip() on a token text.
RECURSIVE LStripText(_)
LStripText(text) ==
  IF text # <<>> /\ IsSpace(Head(text)) THEN LStripText(Tail(text)) ELSE text

RECURSIVE RStripText(_)
RStripText(text) ==
  IF text # <<>> /\ IsSpace(text[Len(text)])
  THEN RStripText(SubSeq(text, 1, Len(text) - 1)) ELSE text

StripText(text) == RStripText(LStripText(text))

LowerText(text) == [i \in 1..Len(text) |-> [text[i] EXCEPT !.k = LowerChar(@)]]

\* str.find and str.rfind, as 1-based positions; 0 when there is none.
Find(text, tok) ==
  LET at == {i \in 1..Len(text) : text[i] = tok}
  IN IF at = {} THEN 0 ELSE CHOOSE i \in at : \A j \in at : i <= j

RFind(text, tok) ==
  LET at == {i \in 1..Len(text) : text[i] = tok}
  IN IF at = {} THEN 0 ELSE CHOOSE i \in at : \A j \in at : i >= j

\* The fence is removed only when the opening line carries no label, or
\* the label json or javascript in any letter case, and a second marker
\* follows the opening line.
strip_json_code_fence(raw) ==
  LET text == StripText(raw)
      first_line_end == Find(text, NL)
      fence_label == LowerText(StripText(SubSeq(text, 2, first_line_end - 1)))
      closing == RFind(text, FENCE)
      inner ==
        IF /\ text # <<>>
           /\ text[1] = FENCE
           /\ first_line_end > 0
           /\ fence_label \in {<<>>, Chars(<<"j", "s", "o", "n">>),
                 Chars(<<"j", "a", "v", "a", "s", "c", "r", "i", "p", "t">>)}
           /\ closing > first_line_end
        THEN StripText(SubSeq(text, first_line_end + 1, closing - 1))
        ELSE text
  IN IF inner = <<>> THEN None ELSE Some(inner)

\* json.loads: whitespace between tokens does not count; an object is
\* "{", members separated by single commas, "}"; a later member replaces
\* an earlier one with the same key.
IsObjectText(t) ==
  /\ Len(t) >= 2
  /\ t[1] = LBRACE
  /\ t[Len(t)] = RBRACE
  /\ \/ Len(t) = 2
     \/ /\ Len(t) % 2 = 1
        /\ \A i \in 2..(Len(t) - 1) : IF i % 2 = 0 THEN t[i].m ELSE t[i] = COMMA

ObjectOf(t) ==
  LET at == {i \in 2..(Len(t) - 1) : t[i].m}
  IN [key \in {t[i].k : i \in at} |->
        t[CHOOSE i \in at : t[i].k = key /\ \A j \in at : t[j].k = key => j <= i].v]

json_loads(text) ==
  LET t == SelectSeq(text, LAMBDA tok : ~IsSpace(tok))
  IN IF IsObjectText(t) THEN Some(JDict(ObjectOf(t)))
     ELSE IF t = <<LBRACK, RBRACK>> THEN Some(JList(<<>>))
     ELSE None

\* "return json.loads(json_str)" with the decode error turned into None.
safe_json_parse(json_str) == json_loads(json_str)

\* re.sub(r',(\s*[}\]])', r'\1', text)
FollowedByCloser(text, i) ==
  \E j \in (i + 1)..Len(text) :
    /\ text[j] \in {RBRACE, RBRACK}
    /\ \A n \in (i + 1)..(j - 1) : IsSpace(text[n])

KeepsTrailingCommas(text) == text

DropTrailingCommas(text) ==
  LET positions == [i \in 1..Len(text) |-> i]
      kept == SelectSeq(positions,
                LAMBDA i : ~(text[i] = COMMA /\ FollowedByCloser(text, i)))
  IN [j \in 1..Len(kept) |-> text[kept[j]]]

attempt_repair(raw) ==
  LET text == StripText(raw)
      first_brace == Find(text, LBRACE)
      cut == IF (text # <<>> /\ text[1] = LBRACE) \/ first_brace = 0
             THEN text
             ELSE SubSeq(text, first_brace, Len(text))
      closed == IF cut # <<>> /\ cut[Len(cut)] = RBRACE
                THEN cut ELSE Append(cut, RBRACE)
  IN json_loads(DropTrailingCommas(closed))

parse_with_repair(raw) ==
  LET sanitized == strip_json_code_fence(raw)
      direct == safe_json_parse(Get(sanitized))
  IN IF IsNone(sanitized) THEN None
     ELSE IF ~IsNone(direct) THEN direct
     ELSE attempt_repair(Get(sanitized))

\* float(text) for the texts "d" and "d.d"; any other text is a ValueError.
Digits == <<"0", "1", "2", "3", "4", "5", "6", "7", "8", "9">>
IsDigit(c) == \E i \in 1..Len(Digits) : Digits[i] = c
DigitValue(c) == (CHOOSE i \in 1..Len(Digits) : Digits[i] = c) - 1

FloatOfText(s) ==
  IF Len(s) = 1 /\ IsDigit(s[1]) THEN JNum(DigitValue(s[1]) * 1000)
  ELSE IF Len(s) = 3 /\ IsDigit(s[1]) /\ s[2] = "." /\ IsDigit(s[3])
  THEN JNum(DigitValue(s[1]) * 1000 + DigitValue(s[3]) * 100)
  ELSE Raised

\* float(value), the fallback on ValueError and TypeError.  NaN is a float
\* and is neither infinity, so it is returned as it is.
parse_number(value, fallback) ==
  IF value.t \in {"num", "nan"} THEN value
  ELSE IF value.t = "str" /\ FloatOfText(value.v) # Raised THEN FloatOfText(value.v)
  ELSE fallback

\* Python's == and < on floats: every comparison with NaN is False.
FloatEq(a, b) == a.t = "num" /\ b.t = "num" /\ a.v = b.v
FloatLess(a, b) == a.t = "num" /\ b.t = "num" /\ a.v < b.v

\* round(x, ndigits), unit being one step of the kept digit in thousandths.
\* The inputs of the model are no ties, or ties a float holds exactly.
round(x, unit) ==
  IF x.t = "nan" THEN x ELSE JNum(RoundHalfEven(x.v, unit) * unit)

\* dict.get(key) and dict.get(key, default)
DictGet(d, key, default) == IF key \in DOMAIN d THEN d[key] ELSE default
DictPut(d, key, value) ==
  [k \in DOMAIN d \cup {key} |-> IF k = key THEN value ELSE d[k]]

\* "not value"
Falsy(value) ==
  \/ value.t = "null"
  \/ value.t \in {"str", "list"} /\ value.v = <<>>
  \/ value.t = "dict" /\ DOMAIN value.v = {}
  \/ value.t = "num" /\ value.v = 0

\* "score == float('nan') or score < lo or score > hi"
InvalidNumber(score, lo, hi) ==
  FloatEq(score, JNaN) \/ FloatLess(score, JNum(lo)) \/ FloatLess(JNum(hi), score)

ScoreOfField(d, key) == parse_number(DictGet(d, key, JNull), JNaN)

\* The validation loops: None at the first invalid field, otherwise every
\* field replaced by its rounded number.
RoundedScores(d, keys) ==
  [k \in DOMAIN d \cup keys |->
     IF k \in keys THEN round(ScoreOfField(d, k), 100) ELSE d[k]]

RawScoreKeys == {"primary_score", "sub_score", "process_score"}
AesKeys == {"aes_clarity", "aes_logic", "aes_relevance"}

NotADict(p) == IsNone(p) \/ Falsy(Get(p)) \/ Get(p).t # "dict"

parse_pm01_raw_response(raw, question_number) ==
  LET p == parse_with_repair(raw)
      d == Get(p).v
  IN IF NotADict(p) THEN Rejected
     ELSE IF \E k \in RawScoreKeys \cup AesKeys :
                InvalidNumber(ScoreOfField(d, k), 1000, 5000)
     THEN Rejected
     ELSE IF \/ Falsy(DictGet(d, "evidence", JNull))
             \/ Falsy(DictGet(d, "judgment_reason", JNull))
     THEN Rejected
     ELSE JDict(DictPut(RoundedScores(d, RawScoreKeys \cup AesKeys),
                        "question_number", JNum(question_number * 1000)))

parse_pm05_raw_response(raw, question_number) ==
  LET p == parse_with_repair(raw)
      d == Get(p).v
  IN IF NotADict(p) THEN Rejected
     ELSE IF \E k \in RawScoreKeys : InvalidNumber(ScoreOfField(d, k), 1000, 5000)
     THEN Rejected
     ELSE IF Falsy(DictGet(d, "difference_note", JNull)) THEN Rejected
     ELSE JDict(DictPut(RoundedScores(d, RawScoreKeys),
                        "question_number", JNum(question_number * 1000)))

AiUseLevels == {JStr(<<"basic">>), JStr(<<"standard">>), JStr(<<"advanced">>)}

parse_pm01_final_response(raw) ==
  LET p == parse_with_repair(raw)
      d == Get(p).v
      ai_use_level == DictGet(d, "ai_use_level", JStr(<<>>))
      recommendations == DictGet(d, "recommendations", JNull)
  IN IF NotADict(p) THEN Rejected
     ELSE IF Falsy(DictGet(d, "overall_summary", JNull)) THEN Rejected
     ELSE JDict(DictPut(
            DictPut(d, "ai_use_level",
                    IF ai_use_level \in AiUseLevels THEN ai_use_level
                    ELSE JStr(<<"standard">>)),
            "recommendations",
            IF recommendations.t = "list" THEN recommendations ELSE JList(<<>>)))

JapaneseStatuses == {<<"datou">>, <<"chuui">>, <<"saihyouka">>}

status_map_untranslated(status_lower) ==
  IF status_lower \in {<<"v", "a", "l", "i", "d">>, <<"c", "a", "u", "t", "i", "o", "n">>,
                       <<"r", "e", "-", "e", "v", "a", "l", "u", "a", "t", "e">>,
                       <<"r", "e", "e", "v", "a", "l", "u", "a", "t", "e">>}
  THEN Some(status_lower)
  ELSE None

status_map(status_lower) ==
  IF status_lower = <<"v", "a", "l", "i", "d">> THEN Some(<<"datou">>)
  ELSE IF status_lower = <<"c", "a", "u", "t", "i", "o", "n">> THEN Some(<<"chuui">>)
  ELSE IF status_lower \in {<<"r", "e", "-", "e", "v", "a", "l", "u", "a", "t", "e">>,
                            <<"r", "e", "e", "v", "a", "l", "u", "a", "t", "e">>}
  THEN Some(<<"saihyouka">>)
  ELSE None

parse_pm05_final_response(raw) ==
  LET p == parse_with_repair(raw)
      d == Get(p).v
      consistency_score == ScoreOfField(d, "consistency_score")
      status == DictGet(d, "status", JStr(<<>>))
      mapped == status_map(Lower(status.v))
      detected_issues == DictGet(d, "detected_issues", DictGet(d, "issues", JList(<<>>)))
      comment == DictGet(d, "comment", DictGet(d, "summary", JStr(<<>>)))
  IN IF NotADict(p) THEN Rejected
     ELSE IF InvalidNumber(consistency_score, 0, 1000) THEN Rejected
     ELSE IF status.t # "str" THEN Raised
     ELSE IF IsNone(mapped) /\ status.v \notin JapaneseStatuses THEN Rejected
     ELSE IF Falsy(comment) THEN Rejected
     ELSE JDict(DictPut(DictPut(DictPut(DictPut(d,
            "consistency_score", round(consistency_score, 10)),
            "status", IF IsNone(mapped) THEN status ELSE JStr(Get(mapped))),
            "detected_issues",
            IF detected_issues.t = "list" THEN detected_issues ELSE JList(<<>>)),
            "comment", comment))

\* The status of the report ScoringEngine.process_pm05_final builds from a
\* parsed reply: the same table, and the middle label for any other text.
report_status(status) ==
  LET mapped == status_map(Lower(status.v))
  IN IF ~IsNone(mapped) THEN JStr(Get(mapped))
     ELSE IF status.v \notin JapaneseStatuses THEN JStr(<<"chuui">>)
     ELSE status

ParserStages == {"pm01_raw", "pm05_raw", "pm01_final", "pm05_final"}

parse(stage, raw, question_number) ==
  CASE stage = "pm01_raw" -> parse_pm01_raw_response(raw, question_number)
    [] stage = "pm05_raw" -> parse_pm05_raw_response(raw, question_number)
    [] stage = "pm01_final" -> parse_pm01_final_response(raw)
    [] stage = "pm05_final" -> parse_pm05_final_response(raw)

\* json.dumps(record): the members in a fixed key order, separated by ", ".
KeyOrder ==
  <<"primary_score", "sub_score", "process_score", "aes_clarity", "aes_logic",
    "aes_relevance", "evidence", "judgment_reason", "difference_note",
    "overall_summary", "ai_use_level", "recommendations", "consistency_score",
    "status", "issues", "detected_issues", "summary", "comment",
    "question_number">>

RECURSIVE Joined(_)
Joined(members) ==
  IF Len(members) <= 1 THEN members
  ELSE <<Head(members), COMMA, SP>> \o Joined(Tail(members))

json_dumps(d) ==
  LET keys == SelectSeq(KeyOrder, LAMBDA k : k \in DOMAIN d)
  IN <<LBRACE>> \o Joined([i \in 1..Len(keys) |-> Member(keys[i], d[keys[i]])])
     \o <<RBRACE>>

\* Python's == on two returned records: NaN equals nothing, itself included.
ValueEq(a, b) == a.t # "nan" /\ a = b
RecordEq(a, b) ==
  /\ a.t = "dict" /\ b.t = "dict"
  /\ DOMAIN a.v = DOMAIN b.v
  /\ \A k \in DOMAIN a.v : ValueEq(a.v[k], b.v[k])

(***************************************************************************)
(* The parser on its own: a reply text is drawn from the payloads and      *)
(* wrappings below, parsed, and the returned record dumped and parsed      *)
(* again.                                                                  *)
(***************************************************************************)
Absent == [t |-> "absent", v |-> 0]

Replaced(members, key, value) ==
  [i \in 1..Len(members) |->
     IF members[i].k = key THEN Member(key, value) ELSE members[i]]

Without(members, key) == SelectSeq(members, LAMBDA mem : mem.k # key)

Varied(members, key, value) ==
  IF value = Absent THEN Without(members, key) ELSE Replaced(members, key, value)

BasePayload(stage) ==
  CASE stage = "pm01_raw" ->
         <<Member("primary_score", JNum(4500)), Member("sub_score", JNum(3000)),
           Member("process_score", JNum(2000)), Member("aes_clarity", JNum(4250)),
           Member("aes_logic", JNum(3500)), Member("aes_relevance", JNum(1000)),
           Member("evidence", JStr(<<"e">>)),
           Member("judgment_reason", JStr(<<"j">>))>>
    [] stage = "pm05_raw" ->
         <<Member("primary_score", JNum(4500)), Member("sub_score", JNum(4960)),
           Member("process_score", JNum(5000)),
           Member("difference_note", JStr(<<"d">>))>>
    [] stage = "pm01_final" ->
         <<Member("overall_summary", JStr(<<"s">>)),
           Member("ai_use_level", JStr(<<"advanced">>)),
           Member("recommendations", JList(<<"rec-a">>))>>
    [] stage = "pm05_final" ->
         <<Member("consistency_score", JNum(920)),
           Member("status", JStr(<<"v", "a", "l", "i", "d">>)),
           Member("detected_issues", JList(<<"issue">>)),
           Member("comment", JStr(<<"c">>))>>

NotNumbers ==
  {Absent, JNull, JNaN, JStr(<<"n", "/", "a">>), JStr(<<>>), JList(<<>>)}

ScoreInputs ==
  NotNumbers \cup {JStr(<<"4", ".", "5">>), JStr(<<"7">>)}
  \cup {JNum(n) : n \in {0, 900, 960, 1000, 4250, 4500, 4940, 4960, 5000, 5040, 5100}}

ConsistencyInputs ==
  NotNumbers \cup {JStr(<<"0", ".", "5">>)}
  \cup {JNum(n) : n \in {-100, 0, 125, 867, 920, 1000, 1004, 1400}}

StatusInputs ==
  {Absent, JNull, JNum(1000),
   JStr(<<"v", "a", "l", "i", "d">>), JStr(<<"V", "a", "l", "i", "d">>),
   JStr(<<"C", "A", "U", "T", "I", "O", "N">>),
   JStr(<<"r", "e", "-", "e", "v", "a", "l", "u", "a", "t", "e">>),
   JStr(<<"R", "e", "e", "v", "a", "l", "u", "a", "t", "e">>),
   JStr(<<"datou">>), JStr(<<"saihyouka">>), JStr(<<"o", "k">>)}

TextInputs ==
  {Absent, JNull, JStr(<<>>), JStr(<<"basic">>), JStr(<<"t">>), JList(<<>>),
   JList(<<"rec-a", "rec-b">>), JNum(3000)}

\* The two spellings of the issue list and the comment, and their absence.
NotesInputs ==
  {<<>>,
   <<Member("detected_issues", JList(<<"issue">>)), Member("comment", JStr(<<"c">>))>>,
   <<Member("issues", JList(<<"issue">>)), Member("summary", JStr(<<"c">>))>>,
   <<Member("issues", JStr(<<"text">>)), Member("comment", JStr(<<"c">>))>>,
   <<Member("detected_issues", JNull), Member("issues", JList(<<"issue">>)),
     Member("comment", JStr(<<>>)), Member("summary", JStr(<<"c">>))>>}

Payloads(stage) ==
  CASE stage = "pm01_raw" ->
         {Varied(BasePayload(stage), key, value) :
            key \in RawScoreKeys \cup AesKeys \cup {"evidence"}, value \in ScoreInputs}
    [] stage = "pm05_raw" ->
         {Varied(BasePayload(stage), key, value) :
            key \in RawScoreKeys \cup {"difference_note"}, value \in ScoreInputs}
    [] stage = "pm01_final" ->
         {Varied(BasePayload(stage), key, value) :
            key \in {"overall_summary", "ai_use_level", "recommendations"},
            value \in TextInputs}
    [] stage = "pm05_final" ->
         {Varied(Varied(SubSeq(BasePayload(stage), 1, 2),
                        "consistency_score", consistency), "status", status)
            \o notes :
            consistency \in ConsistencyInputs, status \in StatusInputs,
            notes \in NotesInputs}

Prose == Chars(<<"H", "e", "r", "e", ":">>)

Object(members) == <<LBRACE>> \o Joined(members) \o <<RBRACE>>
ObjectWithComma(members) == <<LBRACE>> \o Joined(members) \o <<COMMA, NL, RBRACE>>
Fenced(label, text) == <<FENCE>> \o label \o <<NL>> \o text \o <<NL, FENCE>>

RepairableWrappers ==
  {"fenced", "fenced_upper", "fenced_bare", "fenced_javascript",
   "fenced_trailing_comma", "trailing_comma", "prose_before", "unclosed",
   "prose_unclosed_comma", "fence_not_closed"}

HopelessWrappers ==
  {"fenced_python", "fence_on_one_line", "prose_after", "missing_comma",
   "double_comma"}

Wrappers ==
  {"plain", "empty", "blank", "list", "empty_object"}
  \cup RepairableWrappers \cup HopelessWrappers

Wrapped(wrapper, members) ==
  CASE wrapper = "plain" -> Object(members)
    [] wrapper = "empty" -> <<>>
    [] wrapper = "blank" -> <<SP, NL>>
    [] wrapper = "list" -> <<LBRACK, RBRACK>>
    [] wrapper = "empty_object" -> <<NL, LBRACE, SP, RBRACE>>
    [] wrapper = "fenced" ->
         Fenced(Chars(<<"j", "s", "o", "n">>), Object(members))
    [] wrapper = "fenced_upper" ->
         <<NL>> \o Fenced(<<SP>> \o Chars(<<"J", "S", "O", "N">>) \o <<SP>>,
                          Object(members))
    [] wrapper = "fenced_bare" -> Fenced(<<>>, Object(members))
    [] wrapper = "fenced_javascript" ->
         Fenced(Chars(<<"j", "a", "v", "a", "s", "c", "r", "i", "p", "t">>),
                Object(members))
    [] wrapper = "fenced_trailing_comma" ->
         Fenced(Chars(<<"j", "s", "o", "n">>), ObjectWithComma(members))
    [] wrapper = "trailing_comma" -> ObjectWithComma(members)
    [] wrapper = "prose_before" -> Prose \o <<SP>> \o Object(members)
    [] wrapper = "unclosed" -> <<LBRACE>> \o Joined(members)
    [] wrapper = "prose_unclosed_comma" ->
         Prose \o <<NL, LBRACE>> \o Joined(members) \o <<COMMA, SP>>
    [] wrapper = "fence_not_closed" ->
         <<FENCE>> \o Chars(<<"j", "s", "o", "n">>) \o <<NL>> \o Object(members)
    [] wrapper = "fenced_python" ->
         Fenced(Chars(<<"p", "y", "t", "h", "o", "n">>), Object(members))
    [] wrapper = "fence_on_one_line" ->
         <<FENCE>> \o Object(members) \o <<FENCE>>
    [] wrapper = "prose_after" -> Object(members) \o <<SP>> \o Prose
    [] wrapper = "missing_comma" ->
         <<LBRACE>> \o SelectSeq(Joined(members), LAMBDA tok : tok # COMMA)
         \o <<RBRACE>>
    [] wrapper = "double_comma" ->
         <<LBRACE>> \o Joined(members) \o <<COMMA, COMMA, RBRACE>>

QuestionNumbersOf(stage) ==
  IF stage \in {"pm01_raw", "pm05_raw"} THEN {1, 2} ELSE {0}

ParserInit ==
  /\ PipelineInit(AllPrompts, {"complete"}, {<<>>})
  /\ \E stage \in ParserStages :
     \E wrapper \in Wrappers :
     \E payload \in IF wrapper \in {"plain", "fenced_trailing_comma"}
                    THEN Payloads(stage) ELSE {BasePayload(stage)} :
     \E question_number \in QuestionNumbersOf(stage) :
       parser_call = [stage |-> stage, raw |-> Wrapped(wrapper, payload),
                      question_number |-> question_number,
                      wrapper |-> wrapper, payload |-> payload]
  /\ parsed = NotParsed
  /\ reparsed = NotParsed
  /\ MapperIdle
  /\ AggregatorIdle
  /\ ValidatorIdle
  /\ OverlapIdle

\* The evaluator hands the reply text to the parser of its stage.
parse_reply ==
  /\ parsed = NotParsed
  /\ parsed' = parse(parser_call.stage, parser_call.raw, parser_call.question_number)
  /\ UNCHANGED <<parser_call, reparsed, mapperVars, aggregatorVars, pipelineVars>>

\* The returned record is dumped and parsed once more.
parse_dumped ==
  /\ parsed.t = "dict"
  /\ reparsed = NotParsed
  /\ reparsed' = parse(parser_call.stage, json_dumps(parsed.v),
                       parser_call.question_number)
  /\ UNCHANGED <<parser_call, parsed, mapperVars, aggregatorVars, pipelineVars>>

ParserNext == parse_reply \/ parse_dumped

ParserSpec == ParserInit /\ [][ParserNext]_vars

(***************************************************************************)
(* The aggregator on its own.  A call is a question list as the sheet      *)
(* authors it, a pass-B result set, a pass-A result set and a second       *)
(* pass-A result set; the actions aggregate the call, the call with the    *)
(* second pass-A set, and the call without the questions that do not map.  *)
(* Scores are in tenths.  The pass-B scores are half points or one score   *)
(* for every question, and the two sub-category means are such that their  *)
(* mean is no tie or a tie a float holds exactly, so that round() of the   *)
(* float is the decimal rounding computed here.                            *)
(***************************************************************************)
SheetPrimaryLabels ==
  << <<"mondai-rikai">>, <<"ronri-kousei">>, <<"kasetsu-kouchiku">>,
     <<"AI-shiji">>, <<"AI-seika-kenshou-ryoku">> >>

SheetSubLabels == << <<"jouhou-seiri">>, <<" ", "zentei-settei">> >>

SheetProcessLabels ==
  <<P_clarity, P_structure, <<"H">> \o Tail(P_hypothesis),
    P_prompt_underscore, P_quality_check>>

\* The question of number n of a sheet whose six questions cover every
\* official category.
SheetQuestion(n) ==
  [number |-> n,
   primary_category |-> SheetPrimaryLabels[((n - 1) % 5) + 1],
   sub_category |-> SheetSubLabels[((n - 1) % 2) + 1],
   process_category |-> SheetProcessLabels[((n - 1) % 5) + 1]]

SheetQuestions == [n \in 1..DIAGNOSIS_QUESTION_COUNT |-> SheetQuestion(n)]

LabelKeys == {"primary_category", "sub_category", "process_category"}

\* A label no mapping dictionary knows.
UnknownLabel == <<"sonota">>

Relabelled(question_list, n, label_key, label) ==
  [question_list EXCEPT ![n] = [@ EXCEPT ![label_key] = label]]

QuestionLists ==
  {SheetQuestions, SubSeq(SheetQuestions, 1, 3), <<>>}
  \cup {Relabelled(SheetQuestions, 2, k, UnknownLabel) : k \in LabelKeys}
  \cup {Relabelled(SheetQuestions, 6, k, <<>>) : k \in LabelKeys}
  \cup {[n \in 1..DIAGNOSIS_QUESTION_COUNT |->
           [SheetQuestions[n] EXCEPT ![k] = UnknownLabel]] : k \in LabelKeys}

Pm05Scores(q, primary_score, sub_score, process_score) ==
  [primary_score |-> primary_score,
   sub_score |-> sub_score,
   process_score |-> process_score,
   difference_note |-> <<"note", q>>,
   question_number |-> q]

UniformScores == {10, 25, 29, 30, 33, 47, 50}

UniformPassB(s) == [q \in 1..DIAGNOSIS_QUESTION_COUNT |-> Pm05Scores(q, s, s, s)]

UnevenPassB ==
  <<Pm05Scores(1, 20, 15, 30), Pm05Scores(2, 15, 45, 45), Pm05Scores(3, 45, 40, 25),
    Pm05Scores(4, 15, 45, 10), Pm05Scores(5, 40, 40, 10), Pm05Scores(6, 45, 30, 25)>>

\* A loaded set whose scores lie outside 1.0..5.0, and one that lacks a question.
UnclampedPassB ==
  [q \in 1..DIAGNOSIS_QUESTION_COUNT |-> Pm05Scores(q, 5 * q, 35 + 5 * q, 25)]

PartialPassB == [q \in 1..5 |-> Pm05RawRecord(q, 0)]

PassBSets ==
  {UniformPassB(s) : s \in UniformScores}
  \cup {[q \in 1..DIAGNOSIS_QUESTION_COUNT |-> Pm05RawRecord(q, v)] : v \in 0..3}
  \cup {UnevenPassB, UnclampedPassB, PartialPassB}

PassA(v) == [q \in 1..DIAGNOSIS_QUESTION_COUNT |-> Pm01RawRecord(q, v)]

\* round() of the mean of the two sub-category means is decimal rounding.
RoundsAsDecimal(call) ==
  LET sub_avg == CategoryMeans(OFFICIAL_SUB_CATEGORIES, MappedQuestions(call.questions),
                               call.pm05_raw_results, "sub_category", "sub")
      total == SumOver(OFFICIAL_SUB_CATEGORIES, sub_avg)
  IN total % 2 = 0 \/ total % 10 = 5

AggregatorCalls ==
  {call \in [questions : QuestionLists,
             pm05_raw_results : PassBSets,
             pm01_raw_results : {PassA(0)},
             pm01_twin : {PassA(0), PassA(1), PassA(2)}] : RoundsAsDecimal(call)}

AggregatorInit ==
  /\ PipelineInit(AllPrompts, {"complete"}, {<<>>})
  /\ ParserIdle
  /\ MapperIdle
  /\ ValidatorIdle
  /\ OverlapIdle
  /\ aggregator_call \in AggregatorCalls
  /\ score_set = NotAggregated
  /\ score_set_twin = NotAggregated
  /\ score_set_rest = NotAggregated

Aggregated(result) == [t |-> "set", v |-> result]

\* The caller hands the call to the aggregator (main.py:254-258).
aggregate ==
  /\ score_set = NotAggregated
  /\ score_set' = Aggregated(aggregate_pm05_raw_scores(
                    aggregator_call.pm05_raw_results,
                    aggregator_call.pm01_raw_results,
                    aggregator_call.questions))
  /\ UNCHANGED <<aggregator_call, score_set_twin, score_set_rest,
                 parserVars, mapperVars, pipelineVars>>

\* The same call with the second pass-A result set.
aggregate_twin ==
  /\ score_set_twin = NotAggregated
  /\ score_set_twin' = Aggregated(aggregate_pm05_raw_scores(
                         aggregator_call.pm05_raw_results,
                         aggregator_call.pm01_twin,
                         aggregator_call.questions))
  /\ UNCHANGED <<aggregator_call, score_set, score_set_rest,
                 parserVars, mapperVars, pipelineVars>>

\* A question all three of whose labels map.
OnAllThreeLabels(question) ==
  /\ map_to_official_category(question.primary_category, "primary") # NoneLabel
  /\ map_to_official_category(question.sub_category, "sub") # NoneLabel
  /\ map_to_official_category(question.process_category, "process") # NoneLabel

\* The same call with a question list that lacks the questions of which a
\* label does not map.
aggregate_rest ==
  /\ score_set_rest = NotAggregated
  /\ score_set_rest' = Aggregated(aggregate_pm05_raw_scores(
                         aggregator_call.pm05_raw_results,
                         aggregator_call.pm01_raw_results,
                         SelectSeq(aggregator_call.questions, OnAllThreeLabels)))
  /\ UNCHANGED <<aggregator_call, score_set, score_set_twin,
                 parserVars, mapperVars, pipelineVars>>

AggregatorNext == aggregate \/ aggregate_twin \/ aggregate_rest

AggregatorSpec == AggregatorInit /\ [][AggregatorNext]_vars

(***************************************************************************)
(* The category mapper on its own.  A call is a label and a group kind;    *)
(* the actions map the label and then map the result again.  The labels    *)
(* are the entries of the three mapping dictionaries as they are, padded   *)
(* with blanks, and in other letter cases, together with texts that are    *)
(* no entry.                                                               *)
(***************************************************************************)
UpperChar(c) ==
  IF \E i \in 1..26 : LowerLetters[i] = c
  THEN UpperLetters[CHOOSE i \in 1..26 : LowerLetters[i] = c]
  ELSE c

Upper(s) == [i \in 1..Len(s) |-> UpperChar(s[i])]

Capitalized(s) == <<UpperChar(Head(s))>> \o Tail(s)

PrimaryAliases ==
  {<<"ronri-kousei">>, <<"AI-seika-kenshou-ryoku">>, <<"yuusen-juni-handan">>}

SubAliases ==
  {<<"zentei-settei">>, <<"youken-teigi-ryoku">>, <<"hinshitsu-check-ryoku">>,
   <<"ishi-kettei">>}

ProcessAliases == {P_prompt_underscore, P_quality_check}

CategoryTypes == {"primary", "sub", "process"}

Official(category_type) ==
  CASE category_type = "primary" -> Range(OFFICIAL_PRIMARY_CATEGORIES)
    [] category_type = "sub" -> Range(OFFICIAL_SUB_CATEGORIES)
    [] category_type = "process" -> Range(OFFICIAL_PROCESS_ITEMS)
    [] OTHER -> {}

Aliases(category_type) ==
  CASE category_type = "primary" -> PrimaryAliases
    [] category_type = "sub" -> SubAliases
    [] category_type = "process" -> ProcessAliases
    [] OTHER -> {}

\* The labels the dictionary of a group knows.
Entries(category_type) == Official(category_type) \cup Aliases(category_type)

AllEntries == UNION {Entries(category_type) : category_type \in CategoryTypes}

\* Texts that are no entry of any dictionary in any letter case: an unknown
\* label, a primary label in small letters, a process label with two blanks
\* inside, a blank, and the empty text.
NoEntries ==
  {UnknownLabel, <<"ai-shiji">>, <<"p", "r", "o", "m", "p", "t", " ", " ">> \o P_clarity,
   <<"c", "l", "a", "r", "i", "t">>, <<" ">>, <<>>}

Labels ==
  AllEntries
  \cup {<<" ">> \o e : e \in AllEntries}
  \cup {e \o <<" ", " ">> : e \in AllEntries}
  \cup {Capitalized(e) : e \in AllEntries}
  \cup {<<" ">> \o Upper(e) \o <<" ">> : e \in AllEntries}
  \cup NoEntries

MapperInit ==
  /\ PipelineInit(AllPrompts, {"complete"}, {<<>>})
  /\ ParserIdle
  /\ AggregatorIdle
  /\ ValidatorIdle
  /\ OverlapIdle
  /\ mapper_call \in [category : Labels, category_type : CategoryTypes \cup {"other"}]
  /\ mapped_to = NotMapped
  /\ remapped_to = NotMapped

\* The aggregator maps a label of a question (scoring_engine.py:100-102).
map_label ==
  /\ mapped_to = NotMapped
  /\ mapped_to' = map_to_official_category(mapper_call.category,
                                           mapper_call.category_type)
  /\ UNCHANGED <<mapper_call, remapped_to, parserVars, aggregatorVars, pipelineVars>>

\* The mapper applied to the label it returned.
map_result ==
  /\ mapped_to \notin {NotMapped, NoneLabel}
  /\ remapped_to = NotMapped
  /\ remapped_to' = map_to_official_category(mapped_to, mapper_call.category_type)
  /\ UNCHANGED <<mapper_call, mapped_to, parserVars, aggregatorVars, pipelineVars>>

MapperNext == map_label \/ map_result

MapperSpec == MapperInit /\ [][MapperNext]_vars

(***************************************************************************)
(* The consistency validator of stage 4 on its own: the records the parser *)
(* accepts (json_parser.py:99-127: a consistency value of 0.0..1.0, one of *)
(* the three status labels, a list of issues) and the report               *)
(* ScoringEngine.process_pm05_final makes of each (scoring_engine.py:      *)
(* 303-356).  Two records with the same consistency value are processed    *)
(* side by side.  Consistency values are in hundredths.                    *)
(***************************************************************************)
ConsistencyValues == {0, 30, 70, 100}

IssueLists == {<<>>, <<"issue">>, << <<>> >>}

ValidatorReplies ==
  [status : JapaneseStatuses, consistency_score : ConsistencyValues,
   detected_issues : IssueLists, comment : {<<"comment", 1>>}]

ValidatorCalls ==
  {call \in [pm05_llm_response : ValidatorReplies, pm05_twin : ValidatorReplies] :
     call.pm05_llm_response.consistency_score = call.pm05_twin.consistency_score}

Reported(result) == [t |-> "report", v |-> result]

ValidatorInit ==
  /\ PipelineInit(AllPrompts, {"complete"}, {<<>>})
  /\ ParserIdle
  /\ MapperIdle
  /\ AggregatorIdle
  /\ OverlapIdle
  /\ validator_call \in ValidatorCalls
  /\ consistency_report = NotReported
  /\ consistency_report_twin = NotReported

validate ==
  /\ consistency_report = NotReported
  /\ consistency_report' = Reported(process_pm05_final(validator_call.pm05_llm_response))
  /\ UNCHANGED <<validator_call, consistency_report_twin, parserVars, mapperVars,
                 aggregatorVars, overlapVars, respondent_data, config,
                 question_sheet, storeVars,
                 pc, run_no, loopVars, resultVars, runnerVars, countVars, reports,
                 hist>>

validate_twin ==
  /\ consistency_report_twin = NotReported
  /\ consistency_report_twin' = Reported(process_pm05_final(validator_call.pm05_twin))
  /\ UNCHANGED <<validator_call, consistency_report, parserVars, mapperVars,
                 aggregatorVars, overlapVars, respondent_data, config,
                 question_sheet, storeVars,
                 pc, run_no, loopVars, resultVars, runnerVars, countVars, reports,
                 hist>>

ValidatorNext == validate \/ validate_twin

ValidatorSpec == ValidatorInit /\ [][ValidatorNext]_vars

(***************************************************************************)
(* Properties.  The vocabulary below restates the spec's reading of a      *)
(* status, independently of the code's tables above.                       *)
(***************************************************************************)
QuestionNumbers == {questions[i].number : i \in DOMAIN questions}

RowsOf(sheet, r) == {i \in DOMAIN sheet : Col(sheet[i], 0).v = RespondentId(r)}

HasQuestionRows(sheet, r) ==
  /\ RowsOf(sheet, r) # {}
  /\ \A q \in QuestionNumbers :
       \E i \in RowsOf(sheet, r) : Col(sheet[i], 2) = QuestionIdCell(q)

HasArtifact(r, k) ==
  CASE k = 1 -> HasQuestionRows(pm1raw_sheet, r)
    [] k = 2 -> HasQuestionRows(pm5raw_sheet, r)
    [] k = 3 -> RowsOf(pm1final_sheet, r) # {}
    [] k = 4 -> RowsOf(pm5final_sheet, r) # {}

Processing == pc.at \notin {"idle", "loop"}

CallsOf(r, stages) == {c \in hist.calls_made : c[1] = r /\ c[2] \in stages}

FailsValidation(r) == ~IsNone(ValidationMarker(respondent_data[r]))

\* C1 (as amended): the status of a respondent changes only (a) by the status
\* update that follows the write of the next stage's artifact, which moves it
\* exactly one stage forward, or (b) by validate_respondents, which replaces
\* the status of a pending respondent that fails validation by an
\* invalid-input marker.
C1_Change(r) ==
  \/ status_col'[r] = status_col[r]
  \/ /\ pc.at = "status"
     /\ r = cur
     /\ HasArtifact(r, pc.step)
     /\ StagesDone(status_col[r]) = pc.step - 1
     /\ StagesDone(status_col'[r]) = pc.step
  \/ /\ pc.at = "idle"
     /\ ~SaysComplete(status_col[r])
     /\ FailsValidation(r)
     /\ status_col'[r] \in InvalidMarkers

C1_StatusAdvancesOrIsMarkedInvalid == [][\A r \in Respondents : C1_Change(r)]_vars

C1_Witness ==
  \E r1, r2 \in Respondents :
    /\ status_col[r1] = PM5FinalDone
    /\ {<<r1, 3, 0>>, <<r1, 4, 0>>} \subseteq hist.calls_made
    /\ status_col[r2] \in InvalidMarkers

\* C1 as the spec states it: every change of a status is one step forward
\* along the chain, made by the completion of the next stage.
C1_Original ==
  [][\A r \in Respondents :
       \/ status_col'[r] = status_col[r]
       \/ /\ pc.at = "status"
          /\ StagesDone(status_col'[r]) = StagesDone(status_col[r]) + 1]_vars

\* C2, first half: in the state a stage abort leaves, the status of the
\* respondent and the four artifact sheets are what they were when the stage
\* started.
C2_AbortLeavesStore ==
  hist.last_abort # 0 =>
    /\ status_col[cur] = hist.stage_start.status
    /\ Snapshot(cur).rows = hist.stage_start.rows
    /\ StagesDone(status_col[cur]) = hist.last_abort - 1

\* C2, second half: a respondent whose stage k aborted in the previous run
\* has, once this run is done with it, had stage k called again from the
\* first question.
FirstQuestionOf(stage) == IF stage <= 2 THEN questions[1].number ELSE 0

C2_NextRunReexecutes ==
  \A r \in hist.done :
    hist.aborted_prev[r] # 0 =>
      <<r, hist.aborted_prev[r], FirstQuestionOf(hist.aborted_prev[r])>>
        \in hist.calls_made

\* C2: after a stage abort the status is what it was before the stage, no
\* artifact row of the stage has been written, and the next run re-executes
\* the same stage from its first question.
C2_Original == C2_AbortLeavesStore /\ C2_NextRunReexecutes

\* C3: a status that says stage k is done implies the artifacts of stages
\* 1..k are in the store; a status update finds its stage's artifact already
\* written; and every evaluator call of a stage k+1 was made with the status
\* already saying stage k done.
C3_ArtifactsBeforeStatusBeforeNextStage ==
  /\ \A r \in Respondents :
       \A k \in 1..StagesDone(status_col[r]) : HasArtifact(r, k)
  /\ pc.at = "status" => HasArtifact(cur, pc.step)
  /\ \A c \in hist.calls_made : StagesDone(status_col[c[1]]) >= c[2] - 1

C3_Witness ==
  \E r \in Respondents :
    /\ Processing /\ r = cur
    /\ hist.read_status = <<>>
    /\ status_col[r] = PM5FinalDone
    /\ CallsOf(r, {1}) # {} /\ CallsOf(r, {2}) # {}
    /\ CallsOf(r, {3}) # {} /\ CallsOf(r, {4}) # {}

\* C4: the starting step of a respondent is a function of its status, trimmed
\* and lower-cased: 2, 3, 4 for stage 1, 2, 3 done, and 1 for an empty or
\* unrecognized status, that is the stage after the last completed one.
C4_StartStageFromStatus ==
  Processing =>
    /\ start_from_step = StagesDone(hist.read_status) + 1
    /\ SaysStage1Done(hist.read_status) => start_from_step = 2
    /\ SaysStage2Done(hist.read_status) => start_from_step = 3
    /\ SaysStage3Done(hist.read_status) => start_from_step = 4

C4_Witness ==
  /\ Processing
  /\ Lower(hist.read_status) # hist.read_status
  /\ Strip(hist.read_status) # hist.read_status
  /\ start_from_step = 3

FinalFields ==
  {"total_score", "scores_primary", "scores_sub", "process", "aes",
   "overall_summary", "ai_use_level", "recommendations"}

SameFinal(loaded, persisted) ==
  /\ ~IsNone(loaded)
  /\ ~IsNone(persisted)
  /\ \A f \in FinalFields : Get(loaded)[f] = Get(persisted)[f]

\* C5: a respondent read at stage 3 done goes on to stage 4 with the
\* synthesis that write_pm1final_results persisted: once the run is done
\* with it, the synthesis in hand is the persisted one and the stage-4
\* evaluator has been called.
C5_Original ==
  \A r \in hist.done :
    (pc.at = "loop" /\ idx >= 1 /\ r = cur /\ SaysStage3Done(hist.read_status)) =>
      /\ SameFinal(pm01_final, hist.persisted_final[r])
      /\ CallsOf(r, {4}) # {}

PassAFields ==
  {"primary_score", "sub_score", "process_score", "aes_clarity", "aes_logic",
   "aes_relevance", "evidence", "judgment_reason"}

PassBFields == {"primary_score", "sub_score", "process_score", "difference_note"}

SameRecords(loaded, persisted, fields) ==
  /\ ~IsNone(persisted)
  /\ DOMAIN loaded = DOMAIN Get(persisted)
  /\ \A q \in DOMAIN loaded : \A f \in fields : loaded[q][f] = Get(persisted)[q][f]

\* C6: a respondent read at stage 2 done gets no stage-1 and no stage-2
\* evaluator call in that run nor in the run after it, and the first
\* evaluator call made for it is the stage-3 synthesis.
C6_NoRawCallsAfterStage2 ==
  \A r \in Respondents :
    /\ r \in hist.stage2_now => hist.first_call[r] \in {0, 3}
    /\ r \in hist.stage2_now \cup hist.stage2_before => CallsOf(r, {1, 2}) = {}

C6_Witness ==
  \E r \in Respondents :
    /\ r \in hist.stage2_now \cap hist.stage2_before
    /\ hist.first_call[r] = 3

\* C7: the pass-A and pass-B records in hand after a skipped stage are,
\* question by question and field by field, those the stage's writer
\* persisted last for the respondent.
C7_LoadedEqualsPersisted ==
  /\ (pc = At("enter", 2) /\ start_from_step > 1) =>
       SameRecords(pm01_raw_results, hist.persisted_a[cur], PassAFields)
  /\ (pc = At("enter", 3) /\ start_from_step > 2) =>
       SameRecords(pm05_raw_results, hist.persisted_b[cur], PassBFields)

C7_Witness ==
  /\ pc = At("enter", 3)
  /\ start_from_step = 3
  /\ run_no = 2
  /\ SameRecords(pm05_raw_results, hist.persisted_b[cur], PassBFields)
  /\ hist.persisted_b[cur] # Some(DefaultPm05Raw(cur))
  /\ Cardinality(QuestionNumbers) >= 2

\* C8: a respondent whose status, trimmed and lower-cased, is a complete
\* marker when a run reads it gets no evaluator call, no artifact write and
\* no status update in that run, so its status stays complete for the next.
C8_CompletedAreExcluded ==
  \A r \in hist.completed_read :
    /\ r \notin hist.touched
    /\ CallsOf(r, Stages) = {}
    /\ SaysComplete(status_col[r])

C8_Witness ==
  \E r1, r2 \in Respondents :
    /\ r1 \in hist.completed_read
    /\ status_col[r1] = PM5FinalDone
    /\ r2 \in hist.touched
    /\ CallsOf(r2, Stages) # {}

\* C9: within one invocation of an evaluation runner the evaluator is called
\* at most maxRetries times.
C9_CallsWithinMaxRetries ==
  /\ hist.evaluator_calls <= MaxRetries
  /\ hist.invocation.attempts <= MaxRetries

C9_Witness ==
  /\ hist.invocation.ended
  /\ hist.invocation.attempts = MaxRetries
  /\ hist.invocation.result = "record"

\* C10: an invocation that ends without a record after maxRetries attempts
\* has appended exactly one failure record to the error log.
C10_Original ==
  (/\ hist.invocation.ended
   /\ hist.invocation.result = "none"
   /\ hist.invocation.attempts = MaxRetries) => hist.invocation.logged = 1

(***************************************************************************)
(* C11: when an attempt of a stage-1 or stage-2 runner is the first whose  *)
(* reply parses and validates, the invocation ends there: the question has *)
(* no further evaluator call, the runner holds exactly that attempt's      *)
(* record for the question, and no failure record was written during the   *)
(* invocation, whatever the earlier attempts met.                          *)
(***************************************************************************)
C11_FirstValidReplyEndsInvocation ==
  /\ (pc.at = "attempt" /\ pc.step \in {1, 2})
       => questions[question_index].number \notin DOMAIN all_question_results
  /\ (hist.invocation.ended /\ hist.invocation.result = "record"
         /\ hist.invocation.stage \in {1, 2})
       => /\ hist.invocation.tries <= MaxRetries
          /\ hist.invocation.question \in DOMAIN all_question_results
          /\ all_question_results[hist.invocation.question]
               = Get(hist.invocation.record)
          /\ Len(error_log) = hist.invocation.log_mark

\* Every attempt but the last allowed one fails, and the last brings the
\* record.
C11_Witness ==
  /\ hist.invocation.ended
  /\ hist.invocation.result = "record"
  /\ hist.invocation.stage \in {1, 2}
  /\ hist.invocation.tries = MaxRetries
  /\ MaxRetries >= 3
  /\ Len(error_log) = hist.invocation.log_mark

(***************************************************************************)
(* C12: a transport error and a reply the parser rejects are handled       *)
(* alike.  Either one uses up exactly one attempt and writes no failure    *)
(* record; while attempts remain the runner stays in its retry loop, and   *)
(* every request of one invocation, retries included, is the request of    *)
(* its first attempt; after the last attempt the invocation ends without a *)
(* record.                                                                 *)
(***************************************************************************)
C12_TransportErrorAndRejectionAlike ==
  /\ Cardinality(hist.requests) <= 1
  /\ hist.last_kind \in {"transport_error", "rejected"}
       => /\ attempt = hist.tries
          /\ hist.evaluator_calls = hist.tries
          /\ Cardinality(hist.requests) = 1
          /\ Len(error_log) = hist.log_mark
          /\ IF attempt < MaxRetries
             THEN pc.at = "attempt" /\ ~hist.invocation.ended
             ELSE /\ hist.invocation.ended
                  /\ hist.invocation.result = "none"
                  /\ hist.last_abort = hist.invocation.stage
                  /\ pc.at = "loop"

\* A second attempt has been made with the request of the first, and it was
\* rejected by the parser.
C12_Witness ==
  /\ hist.last_kind = "rejected"
  /\ hist.tries = 2
  /\ hist.evaluator_calls = 2
  /\ Cardinality(hist.requests) = 1
  /\ pc.at = "attempt"

\* A builder of some stage has no template to fill.
MissingPrompt == \E stage \in Stages : IsNone(PromptTemplate(stage))

(***************************************************************************)
(* C13: a prompt template missing from the config is detected before the   *)
(* first respondent is processed and aborts the batch: no pass of a retry  *)
(* loop is made or repeated because of it, and no per-respondent failure   *)
(* is recorded or counted.                                                 *)
(***************************************************************************)
C13_Original ==
  MissingPrompt
    => /\ hist.tries = 0
       /\ error_log = <<>>
       /\ total_errors = 0

(***************************************************************************)
(* C14: in stage 1 and stage 2 the stage stops at the first question whose *)
(* runner ends without a record: in that run the respondent has no         *)
(* evaluator call for a later question or a later stage, it is counted as  *)
(* exactly one error and not as processed, and the loop goes on to the     *)
(* next respondent.                                                        *)
(***************************************************************************)
C14_StageStopsAtFirstFailedQuestion ==
  \A r \in Respondents :
    LET k == hist.aborted_now[r]
    IN k \in {1, 2}
         => /\ r \in hist.done
            /\ \A c \in CallsOf(r, Stages) :
                 /\ c[2] <= k
                 /\ c[2] = k => c[3] <= hist.abort_question[r]
            /\ Processing => r # cur
            /\ (idx > 0 /\ r = cur)
                 => /\ pc.at \in {"loop", "idle"}
                    /\ total_errors = hist.counted_before[2] + 1
                    /\ total_processed = hist.counted_before[1]

\* The first of two questions of stage 1 has ended without a record, its
\* respondent is counted, and another respondent waits in the loop.
C14_Witness ==
  /\ pc.at = "loop"
  /\ idx > 0
  /\ idx < Len(unprocessed)
  /\ Len(questions) >= 2
  /\ hist.last_abort = 1
  /\ hist.aborted_now[cur] = 1
  /\ hist.abort_question[cur] = questions[1].number
  /\ CallsOf(cur, Stages) = {<<cur, 1, questions[1].number>>}
  /\ total_errors = hist.counted_before[2] + 1

\* The respondents of this run whose stage 4 has completed in this run: the
\* list of a run holds no respondent that was complete when the run started.
CompletedInRun == {r \in hist.done : SaysComplete(status_col[r])}

EnteredSoFar == {unprocessed[i].id : i \in 1..idx}

(***************************************************************************)
(* C15: every respondent that has entered the loop is counted exactly      *)
(* once: between two respondents processed + errors is the number of       *)
(* respondents entered so far, the processed ones are exactly those whose  *)
(* stage 4 completed in this run, and the run log entry that closes the    *)
(* run carries counts that add up to the length of the run's list.         *)
(***************************************************************************)
C15_EveryRespondentCountedOnce ==
  /\ pc.at = "loop"
       => /\ total_processed + total_errors = idx
          /\ hist.done = EnteredSoFar
          /\ total_processed = Cardinality(CompletedInRun)
          /\ total_errors = Cardinality(hist.done \ CompletedInRun)
  /\ Processing => total_processed + total_errors = idx - 1
  /\ (pc.at = "idle" /\ run_log # <<>>)
       => LET entry == run_log[Len(run_log)]
          IN /\ entry.processed + entry.errors = Len(unprocessed)
             /\ entry.processed = total_processed
             /\ entry.errors = total_errors

\* A run of two respondents has ended with one processed and one error.
C15_Witness ==
  /\ pc.at = "idle"
  /\ run_log # <<>>
  /\ Len(unprocessed) = 2
  /\ run_log[Len(run_log)] = [processed |-> 1, errors |-> 1]

RunIsOpen == pc.at # "idle"

\* The run has ended: every respondent of its list has an outcome and the
\* run log has grown by the one entry of this run.
RunIsClosed ==
  /\ pc.at = "idle"
  /\ hist.done = {unprocessed[i].id : i \in DOMAIN unprocessed}
  /\ total_processed + total_errors = Len(unprocessed)
  /\ Len(run_log) = hist.run_log_mark + 1

(***************************************************************************)
(* C16: a failure of one respondent never stops the batch.  As long as     *)
(* every evaluator and store call returns, a run that has entered its loop *)
(* brings every respondent of its list to an outcome and ends with one run *)
(* log entry; no run writes more than one.                                 *)
(***************************************************************************)
C16_EveryRunEndsWithOneRunLogEntry ==
  /\ [](Len(run_log) <= hist.run_log_mark + 1)
  /\ \A n \in 1..MaxRuns :
       (RunIsOpen /\ run_no = n) ~> (RunIsClosed /\ run_no = n)

\* The first respondent of the list failed, the second was completed after
\* it, and the run is closed.
C16_Witness ==
  /\ RunIsClosed
  /\ Len(unprocessed) = 2
  /\ hist.aborted_now[unprocessed[1].id] # 0
  /\ SaysComplete(status_col[unprocessed[2].id])
  /\ run_log[Len(run_log)] = [processed |-> 1, errors |-> 1]

(***************************************************************************)
(* The parser's contract, read off the reply text that was handed in.      *)
(***************************************************************************)
\* The numeric fields a record of the stage must carry, with their range.
RequiredNumbers(stage) ==
  CASE stage = "pm01_raw" ->
         {"primary_score", "sub_score", "process_score",
          "aes_clarity", "aes_logic", "aes_relevance"}
    [] stage = "pm05_raw" -> {"primary_score", "sub_score", "process_score"}
    [] stage = "pm05_final" -> {"consistency_score"}
    [] OTHER -> {}

RangeOf(stage) == IF stage = "pm05_final" THEN <<0, 1000>> ELSE <<1000, 5000>>

\* The value the reply gives a field: that of its last member of the name.
FieldOf(payload, key) ==
  LET at == {i \in 1..Len(payload) : payload[i].k = key}
  IN IF at = {} THEN Absent
     ELSE payload[CHOOSE i \in at : \A j \in at : j <= i].v

\* A number, or a text that reads as one.
Convertible(value) ==
  \/ value.t \in {"num", "nan"}
  \/ value.t = "str" /\ FloatOfText(value.v) # Raised

\* C17: no record is returned for a reply in which a required numeric field
\* of the stage (a stage-1 or stage-2 score, the stage-4 consistency value)
\* is absent, null or not convertible to a number.
C17_Original ==
  parsed.t = "dict" =>
    \A key \in RequiredNumbers(parser_call.stage) :
      Convertible(FieldOf(parser_call.payload, key))

InRange(value, range) ==
  value.t = "num" /\ range[1] <= value.v /\ value.v <= range[2]

\* A reply that gives a required numeric field a number outside the range
\* of its kind is rejected.
OutOfRangeNumberIsRejected ==
  \A key \in RequiredNumbers(parser_call.stage) :
    LET given == FieldOf(parser_call.payload, key)
    IN (parsed # NotParsed /\ given.t = "num"
        /\ ~InRange(given, RangeOf(parser_call.stage)))
       => parsed = Rejected

\* C18: every numeric field of a returned record lies inside the range of
\* its kind after rounding (1.0 to 5.0 for a stage-1 or stage-2 score, 0.0
\* to 1.0 for the stage-4 consistency value), and a reply with a number
\* outside the range is rejected, never clamped.
C18_Original ==
  /\ parsed.t = "dict" =>
       \A key \in RequiredNumbers(parser_call.stage) :
         InRange(parsed.v[key], RangeOf(parser_call.stage))
  /\ OutOfRangeNumberIsRejected

\* Parsing the dumped record returns the same record whenever no field of
\* the record is NaN.
SecondPassChangesNoNumber ==
  (reparsed # NotParsed /\ \A key \in DOMAIN parsed.v : parsed.v[key].t # "nan")
    => RecordEq(reparsed, parsed)

\* C19: for every stage and every reply text that parses successfully,
\* parsing the dumped record succeeds and returns a record equal to the
\* first one.
C19_Original == reparsed # NotParsed => RecordEq(reparsed, parsed)

\* C20: a reply that differs from a plain object only by what fence
\* stripping and the one repair undo (a json fence, text before the first
\* opening brace, a missing closing brace, a trailing comma before the
\* closing brace) parses to what the plain object parses to; a reply that
\* still does not decode after the one repair is rejected; and the fenced
\* stage-1 object with the trailing comma keeps primary_score 4.5 exactly.
C20_RepairedReplyParsesAsThePlainObject ==
  parsed # NotParsed =>
    /\ parser_call.wrapper \in RepairableWrappers =>
         parsed = parse(parser_call.stage, Object(parser_call.payload),
                        parser_call.question_number)
    /\ (parser_call.wrapper \in HopelessWrappers /\ Len(parser_call.payload) >= 2)
         => parsed = Rejected
    /\ (/\ parser_call.wrapper \in RepairableWrappers
        /\ parser_call.stage = "pm01_raw"
        /\ parser_call.payload = BasePayload("pm01_raw"))
         => /\ parsed.t = "dict"
            /\ parsed.v["primary_score"] = JNum(4500)
            /\ parsed.v["question_number"] = JNum(parser_call.question_number * 1000)

C20_Witness ==
  /\ parser_call.wrapper = "fenced_trailing_comma"
  /\ parser_call.stage = "pm01_raw"
  /\ FieldOf(parser_call.payload, "primary_score") = JNum(4500)
  /\ parsed.t = "dict"
  /\ parsed.v["primary_score"] = JNum(4500)
  /\ reparsed = parsed

\* The two naming schemes of a stage-4 status, label by label: the English
\* one in any letter case (re-evaluate with or without its hyphen) and the
\* Japanese one.
SchemeLabel(status) ==
  IF status.t # "str" THEN None
  ELSE IF Lower(status.v) = <<"v", "a", "l", "i", "d">> \/ status.v = <<"datou">>
  THEN Some(<<"datou">>)
  ELSE IF Lower(status.v) = <<"c", "a", "u", "t", "i", "o", "n">> \/ status.v = <<"chuui">>
  THEN Some(<<"chuui">>)
  ELSE IF \/ Lower(status.v) = <<"r", "e", "-", "e", "v", "a", "l", "u", "a", "t", "e">>
          \/ Lower(status.v) = <<"r", "e", "e", "v", "a", "l", "u", "a", "t", "e">>
          \/ status.v = <<"saihyouka">>
  THEN Some(<<"saihyouka">>)
  ELSE None

NoQuestionMaps ==
  \A i \in DOMAIN aggregator_call.questions :
     ~OnAllThreeLabels(aggregator_call.questions[i])

\* C22: whenever no question maps on all three category labels (every
\* category bucket is empty), the aggregator returns none, on which stage 3
\* gives the respondent up before the synthesis call.
C22_Original ==
  (score_set # NotAggregated /\ NoQuestionMaps) => score_set.t = "none"

\* Official category c of a group receives a score: a question that maps on
\* all three labels carries a label of the group that maps to c.
Receives(category, label_key, kind) ==
  \E i \in DOMAIN aggregator_call.questions :
     /\ OnAllThreeLabels(aggregator_call.questions[i])
     /\ map_to_official_category(aggregator_call.questions[i][label_key], kind)
          = category

\* The means of one group: a value for each official key and for no other
\* key, a score for a category that receives one, 0.0 for one that does not.
OfficialKeysOnly(means, official, label_key, kind) ==
  /\ DOMAIN means = {official[i] : i \in DOMAIN official}
  /\ \A i \in DOMAIN official :
        IF Receives(official[i], label_key, kind)
        THEN means[official[i]] \in 10..50
        ELSE means[official[i]] = 0

\* C23: every score set the aggregator returns has a numeric value for each
\* of the five primary, the two sub and the five process official keys, 0.0
\* for a category that received no score; no official key is absent and no
\* other key is present.
C23_EveryOfficialKeyHasAValue ==
  score_set.t = "set" =>
    /\ OfficialKeysOnly(score_set.v.scores_primary, OFFICIAL_PRIMARY_CATEGORIES,
                        "primary_category", "primary")
    /\ OfficialKeysOnly(score_set.v.scores_sub, OFFICIAL_SUB_CATEGORIES,
                        "sub_category", "sub")
    /\ OfficialKeysOnly(score_set.v.process, OFFICIAL_PROCESS_ITEMS,
                        "process_category", "process")

\* A returned set of a list that gives a score to some primary categories
\* and none to others.
C23_Witness ==
  /\ score_set.t = "set"
  /\ Receives(OFFICIAL_PRIMARY_CATEGORIES[1], "primary_category", "primary")
  /\ ~Receives(OFFICIAL_PRIMARY_CATEGORIES[5], "primary_category", "primary")
  /\ score_set.v.scores_primary[OFFICIAL_PRIMARY_CATEGORIES[1]] > 0
  /\ score_set.v.scores_primary[OFFICIAL_PRIMARY_CATEGORIES[5]] = 0

\* The sum of the means a returned set reports for the categories of a group.
ReportedSum(means, official) == SumOver(official, means)

\* round(0.60 * p / 5 + 0.20 * s / 2 + 0.20 * r / 5, 1) in tenths, for the
\* sums p, s and r of the reported primary, sub and process category means.
TotalOfGroupMeans(p, s, r) == RoundHalfEven(12 * p + 10 * s + 4 * r, 100)

\* C24: the total of a returned score set equals round(0.60 * primary group
\* mean + 0.20 * sub group mean + 0.20 * process group mean, 1), a group
\* mean being the mean of the group's official category means as reported.
C24_Original ==
  score_set.t = "set" =>
    score_set.v.total_score
      = TotalOfGroupMeans(
          ReportedSum(score_set.v.scores_primary, OFFICIAL_PRIMARY_CATEGORIES),
          ReportedSum(score_set.v.scores_sub, OFFICIAL_SUB_CATEGORIES),
          ReportedSum(score_set.v.process, OFFICIAL_PROCESS_ITEMS))

\* The part of a score set that is computed from the scores: the category
\* means of the three groups and the total.
MeansAndTotal(s) ==
  <<s.v.scores_primary, s.v.scores_sub, s.v.process, s.v.total_score>>

\* C25: the total and the category means depend only on the pass-B scores
\* and the labels: two aggregations that differ only in the pass-A records
\* return the same total and the same category means.
C25_PassAChangesNoMean ==
  (score_set.t = "set" /\ score_set_twin.t = "set") =>
    MeansAndTotal(score_set) = MeansAndTotal(score_set_twin)

\* Two aggregations of pass-A sets whose scores differ for every question,
\* with different quality means, and a positive total.
C25_Witness ==
  /\ score_set.t = "set"
  /\ score_set_twin.t = "set"
  /\ \A q \in DOMAIN aggregator_call.pm01_raw_results :
        aggregator_call.pm01_raw_results[q].primary_score
          # aggregator_call.pm01_twin[q].primary_score
  /\ score_set.v.aes # score_set_twin.v.aes
  /\ score_set.v.total_score > 0

\* The call is six questions that all map and together cover every official
\* category of the three groups.
CoversEveryCategory ==
  /\ Len(aggregator_call.questions) = DIAGNOSIS_QUESTION_COUNT
  /\ \A i \in DOMAIN aggregator_call.questions :
        OnAllThreeLabels(aggregator_call.questions[i])
  /\ \A i \in DOMAIN OFFICIAL_PRIMARY_CATEGORIES :
        Receives(OFFICIAL_PRIMARY_CATEGORIES[i], "primary_category", "primary")
  /\ \A i \in DOMAIN OFFICIAL_SUB_CATEGORIES :
        Receives(OFFICIAL_SUB_CATEGORIES[i], "sub_category", "sub")
  /\ \A i \in DOMAIN OFFICIAL_PROCESS_ITEMS :
        Receives(OFFICIAL_PROCESS_ITEMS[i], "process_category", "process")

\* Every question has a pass-B record, and all their scores are s.
UniformlyScored(s) ==
  \A i \in DOMAIN aggregator_call.questions :
     LET q == aggregator_call.questions[i].number IN
     /\ q \in DOMAIN aggregator_call.pm05_raw_results
     /\ aggregator_call.pm05_raw_results[q].primary_score = s
     /\ aggregator_call.pm05_raw_results[q].sub_score = s
     /\ aggregator_call.pm05_raw_results[q].process_score = s

\* C26: for six questions that together cover all five primary, both sub
\* and all five process categories and have one pass-B score s throughout,
\* the total is exactly s.
C26_UniformScoreIsTheTotal ==
  (score_set.t = "set" /\ CoversEveryCategory) =>
    \A s \in 10..50 : UniformlyScored(s) => score_set.v.total_score = s

\* The aggregation of the covering list with the score 3.0 throughout.
C26_Witness ==
  /\ score_set.t = "set"
  /\ CoversEveryCategory
  /\ UniformlyScored(30)
  /\ score_set.v.total_score = 30

\* C27: a question of which any one label does not map is left out of the
\* aggregation entirely: the category means and the total are the ones of
\* the list without that question.
C27_UnmappedQuestionCountsNowhere ==
  (score_set.t = "set" /\ score_set_rest.t = "set") =>
    MeansAndTotal(score_set) = MeansAndTotal(score_set_rest)

\* Both aggregations of a list in which one question has a primary label
\* that maps and a sub or process label that does not, the others mapping.
C27_Witness ==
  /\ score_set.t = "set"
  /\ score_set_rest.t = "set"
  /\ score_set.v.total_score > 0
  /\ \E i \in DOMAIN aggregator_call.questions :
        /\ ~OnAllThreeLabels(aggregator_call.questions[i])
        /\ map_to_official_category(
             aggregator_call.questions[i].primary_category, "primary") # NoneLabel
        /\ \A j \in DOMAIN aggregator_call.questions \ {i} :
              OnAllThreeLabels(aggregator_call.questions[j])

(***************************************************************************)
(* Resumption (claim C28), under ResumeSpec.                               *)
(***************************************************************************)
\* Stage 3 is about to aggregate for the respondent at hand.
AggregationRuns == pc = At("enter", 3) /\ start_from_step <= 3

C29_MapperReturnsOfficialOrNone ==
  /\ mapped_to # NotMapped =>
       /\ mapped_to = NoneLabel \/ mapped_to \in Official(mapper_call.category_type)
       /\ mapper_call.category \in Official(mapper_call.category_type) =>
            mapped_to = mapper_call.category
       /\ mapper_call.category \in Aliases(mapper_call.category_type) =>
            mapped_to \in Official(mapper_call.category_type)
  /\ remapped_to # NotMapped => remapped_to = mapped_to

\* An alias of the sub group, mapped to an official label other than itself,
\* which the mapper has returned again.
C29_Witness ==
  /\ mapper_call.category_type = "sub"
  /\ mapper_call.category \in SubAliases
  /\ mapped_to \in Official("sub")
  /\ mapped_to # mapper_call.category
  /\ remapped_to = mapped_to

\* C30: a process label is matched without regard to letter case after its
\* surrounding blanks are removed, and the official casing is returned; a
\* primary or sub label is matched exactly: one that differs from every
\* entry of its dictionary in any character maps to none.
C30_Original ==
  mapped_to # NotMapped =>
    /\ (/\ mapper_call.category_type = "process"
        /\ Lower(Strip(mapper_call.category)) \in Entries("process"))
         => mapped_to \in Official("process")
    /\ (/\ mapper_call.category_type \in {"primary", "sub"}
        /\ mapper_call.category \notin Entries(mapper_call.category_type))
         => mapped_to = NoneLabel

\* A category mean is 0.0 or lies in 1.0..5.0.
MeanInRange(means) == \A c \in DOMAIN means : means[c] = 0 \/ means[c] \in 10..50

\* C36: every per-category mean of a returned score set is 0.0 (empty
\* bucket) or lies in 1.0..5.0, and the total lies in 0.0..5.0, whatever the
\* pass-B set holds: missing, zero and out-of-range scores are clamped
\* before they reach a bucket.
C36_MeansAndTotalStayInRange ==
  score_set.t = "set" =>
    /\ MeanInRange(score_set.v.scores_primary)
    /\ MeanInRange(score_set.v.scores_sub)
    /\ MeanInRange(score_set.v.process)
    /\ score_set.v.total_score \in 0..50

\* A returned set of a pass-B set with scores below 1.0 and above 5.0, and
\* one of a pass-B set that lacks a question of the list.
C36_Witness ==
  /\ score_set.t = "set"
  /\ aggregator_call.pm05_raw_results \in {UnclampedPassB, PartialPassB}
  /\ \E i \in DOMAIN aggregator_call.questions :
        LET q == aggregator_call.questions[i]
            given == ScoreOf(aggregator_call.pm05_raw_results, q.number, "primary_score")
        IN /\ Maps(q)
           /\ given \notin 10..50
  /\ \E c \in DOMAIN score_set.v.scores_primary : score_set.v.scores_primary[c] > 0

\* The respondent at hand has its stage-4 row in the store.
Stage4RowWritten(r) ==
  \E i \in DOMAIN pm5final_sheet : IsRowOf(pm5final_sheet[i], r, 0)

\* C39: once stage 4 has succeeded (row written, status updated), a failing
\* report generation changes nothing: the stage-4 row stays, the status
\* stays at the stage-4 label, no error is logged, and the respondent is
\* counted as processed and not as an error.
C39_ReportFailureChangesNothing ==
  [][(pc = At("report", 4) /\ reports' = "failed") =>
       /\ Stage4RowWritten(cur)
       /\ status_col[cur] = StageLabel(4)
       /\ UNCHANGED <<storeVars, resultVars>>
       /\ total_processed' = total_processed + 1
       /\ total_errors' = total_errors]_vars

\* A respondent whose report failed after stage 4: finished, at the stage-4
\* label, with its row, counted as processed.
C39_Witness ==
  /\ reports = "failed"
  /\ pc = At("loop", 0)
  /\ total_processed > 0
  /\ \E r \in hist.done : status_col[r] = StageLabel(4) /\ Stage4RowWritten(r)

\* The stage-2 requests of the runner invocation at hand.
Stage2Requests ==
  {req \in hist.requests : {"question", "reference"} \subseteq DOMAIN req.prompt}

\* The pass-A set the store holds for a respondent, if any.
PassASetOf(r) == hist.persisted_a[r]

\* The reference of a request is the record: the scores, the evidence and
\* the judgment the prompt quotes (llm.py:228-239), as the record has them.
CarriesRecord(reference, record) ==
  /\ {"primary_score", "sub_score", "process_score", "aes_clarity", "aes_logic",
      "aes_relevance"} \subseteq DOMAIN reference
  /\ DOMAIN reference \subseteq DOMAIN record
  /\ \A k \in DOMAIN reference : reference[k] = record[k]

\* The positions of the question list whose question has no pass-A record.
LacksPassA(r) ==
  {i \in DOMAIN questions :
     ~IsNone(PassASetOf(r)) /\ questions[i].number \notin DOMAIN Get(PassASetOf(r))}

\* C34: the stage-2 request for Qn carries the pass-A record of Qn of the
\* same respondent; when the pass-A set holds no record for Qn, stage 2
\* aborts with no evaluator call for Qn or for a later question.
C34_Stage2PairsWithPassA ==
  /\ \A req \in Stage2Requests :
        LET r == req.prompt.respondent
            q == req.prompt.question
        IN /\ ~IsNone(PassASetOf(r))
           /\ q \in DOMAIN Get(PassASetOf(r))
           /\ CarriesRecord(req.prompt.reference, Get(PassASetOf(r))[q])
  /\ \A r \in Respondents : \A i \in LacksPassA(r) :
        /\ \A j \in i..Len(questions) :
              <<r, 2, questions[j].number>> \notin hist.calls_made
        /\ (r \in hist.done /\ StagesDone(status_col[r]) = 1) => hist.aborted_now[r] = 2

\* Stage 2 has aborted at a question without a pass-A record, after the
\* call for an earlier question that has one.
C34_Witness ==
  \E r \in Respondents :
    /\ hist.aborted_now[r] = 2
    /\ LacksPassA(r) # {}
    /\ \E i \in DOMAIN questions :
          /\ i \notin LacksPassA(r)
          /\ <<r, 2, questions[i].number>> \in hist.calls_made

\* C37: for every question list the store can return, lists that lack some
\* of Q1..Q6 because of an invalid column header included, the answer and
\* the rationale in the evaluator request for Qn are the respondent's n-th
\* answer and n-th rationale.
C37_Original ==
  \A req \in hist.requests :
     "question" \in DOMAIN req.prompt =>
        LET r == req.prompt.respondent
            n == req.prompt.question
        IN /\ req.prompt.answer = respondent_data[r].answers[n]
           /\ req.prompt.reason = respondent_data[r].reasons[n]

\* The place of a respondent in the list of the run.
PlaceOf(r) == CHOOSE i \in DOMAIN unprocessed : unprocessed[i].id = r

\* The step calls the evaluator: a pass of a retry loop whose prompt builder
\* did not raise.
CallsEvaluator == pc.at = "attempt" /\ hist'.last_kind \in ReplyKinds

\* The call of the step: the respondent at hand, the stage, and the question
\* at hand in the per-question stages.
CallAtHand ==
  <<cur, pc.step, IF pc.step \in {1, 2} THEN questions[question_index].number ELSE 0>>

\* C35: within a run the evaluator calls are totally ordered: a call is for
\* the respondent at hand and no call has been made for a respondent later
\* in the list; within a stage no call has been made for a question with a
\* higher number than the one called for, retries included; a step makes at
\* most one call, so no two calls are in flight at once.
C35_CallsAreTotallyOrdered ==
  [][CallsEvaluator =>
       /\ CallAtHand \in hist'.calls_made
       /\ hist'.calls_made \ hist.calls_made \subseteq {CallAtHand}
       /\ \A c \in hist.calls_made :
             /\ PlaceOf(c[1]) <= idx
             /\ (c[1] = cur /\ c[2] = pc.step) => c[3] <= CallAtHand[3]]_vars

\* Calls for two respondents, for two questions of a stage of the second,
\* the call at hand being a retry.
C35_Witness ==
  /\ pc.at = "attempt"
  /\ hist.tries >= 2
  /\ \E r1, r2 \in Respondents :
       /\ r1 # r2
       /\ \E c \in hist.calls_made : c[1] = r1
       /\ \E c1, c2 \in hist.calls_made :
            c1[1] = r2 /\ c2[1] = r2 /\ c1[2] = c2[2] /\ c1[3] # c2[3]

\* C31: the status of a ConsistencyReport is determined by its consistency
\* value alone, by comparison with two fixed cut-points; two reports with
\* equal consistency values never carry different statuses.
C31_Original ==
  (/\ consistency_report.t = "report"
   /\ consistency_report_twin.t = "report"
   /\ consistency_report.v.consistency_score
        = consistency_report_twin.v.consistency_score)
  => consistency_report.v.status = consistency_report_twin.v.status

\* An issue list holds a non-empty description.
HasIssue(issues) == \E i \in DOMAIN issues : issues[i] # <<>>

\* C32: every ConsistencyReport with the status re-evaluate (a consistency
\* value below the lower cut-point) carries at least one non-empty issue
\* description.
C32_Original ==
  (consistency_report.t = "report" /\ consistency_report.v.status = <<"saihyouka">>)
  => HasIssue(consistency_report.v.detected_issues)

\* Every stage of the respondent was run in this run and none gave up.
AllStagesRun(r) == hist.first_call[r] = 1 /\ hist.aborted_now[r] = 0

\* The store took the stage-4 row of a respondent whose stage-4 call was made.
StoreTookStage4(r) ==
  <<r, 4, 0>> \in hist.calls_made =>
     \E i \in DOMAIN pm5final_sheet : IsRowOf(pm5final_sheet[i], r, 0)

\* C38: the HTTP batch path and the CLI batch path are the same state
\* machine; in particular a respondent for whom stages 1 to 4 all succeed
\* ends at the stage-4 status, on either path.
C38_Original ==
  \A r \in hist.done :
     (AllStagesRun(r) /\ StoreTookStage4(r)) => status_col[r] = StageLabel(4)

\* The rows a sheet holds for a respondent.
RowCount(sheet, r) == Cardinality({i \in DOMAIN sheet : IsRowOf(sheet[i], r, 0)})

\* C33: when two batch runs overlap and every status read and update is
\* atomic, no stage of a respondent is executed by both runs and no stage
\* artifact is written twice.
C33_Original ==
  \A r \in Respondents :
     /\ \A stage \in 1..4 : Cardinality(executed_by[r][stage]) <= 1
     /\ RowCount(pm1raw_sheet, r) <= QuestionColumns
     /\ RowCount(pm5raw_sheet, r) <= QuestionColumns
     /\ RowCount(pm1final_sheet, r) <= 1
     /\ RowCount(pm5final_sheet, r) <= 1

====
